---- MODULE Spec2Model ----
(***************************************************************************)
(* gmail-mcp-lib: credential resolution (tokens.ts), the GmailClient       *)
(* facade and the standalone functions (index.ts), and the call-tool       *)
(* handlers of the two MCP servers.                                        *)
(*                                                                         *)
(* JavaScript values are tagged records, so that values of different       *)
(* types can be compared.  A string that the program parses is kept as the *)
(* sequence of its lexical tokens (JSON text) or of its segments (a path); *)
(* a string that the program only builds or compares is a sequence of      *)
(* fragments whose concatenation is the string.                            *)
(***************************************************************************)
EXTENDS Integers, Sequences, FiniteSets, TLC

VARIABLES
  env,    \* process.env: GMAIL_TOKEN and GMAIL_TOKEN_FILE
  fs,     \* the file system: absolute path -> file state
  last,   \* the last library call made by the caller, with its outcome
  inv,    \* the facade method invocation in progress or just finished
  hist    \* the calls of resolveTokens made so far, where they are observed

vars == <<env, fs, last, inv, hist>>

----------------------------------------------------------------------------
(* Bounds of the model *)

\* at most this many of the eight bundle field names are populated at once
MaxFields == 2

\* at most this many elements in a collection of a remote response
MaxColl == 2

\* at most this many calls of resolveTokens are kept in the observed history
MaxCalls == 2

----------------------------------------------------------------------------
(* JavaScript values *)

Undefined == [t |-> "undefined"]
Null == [t |-> "null"]
Bool(b) == [t |-> "bool", b |-> b]
Num(n) == [t |-> "num", n |-> n]
Str(s) == [t |-> "str", s |-> s]
\* the decimal digits and their values
Digits == <<"0", "1", "2", "3", "4", "5", "6", "7", "8", "9">>
DigitSet == { Digits[i] : i \in DOMAIN Digits }
DigitValue == [c \in DigitSet |-> (CHOOSE i \in DOMAIN Digits : Digits[i] = c) - 1]

\* the largest array index, 2^32 - 2
MaxArrayIndex == "4294967294"

\* of two numbers written in digits without leading zeros, the first is the
\* smaller: it is shorter, or as long and smaller at the first digit in
\* which they differ
Before(a, b) ==
  \/ Len(a) < Len(b)
  \/ /\ Len(a) = Len(b)
     /\ \E i \in 1..Len(a) :
          /\ SubSeq(a, 1, i - 1) = SubSeq(b, 1, i - 1)
          /\ DigitValue[SubSeq(a, i, i)] < DigitValue[SubSeq(b, i, i)]

\* a property name is an array index when it is the canonical decimal form
\* of an integer from 0 to 2^32 - 2
IsArrayIndex(k) ==
  /\ Len(k) >= 1
  /\ \A i \in 1..Len(k) : SubSeq(k, i, i) \in DigitSet
  /\ Len(k) = 1 \/ SubSeq(k, 1, 1) # "0"
  /\ ~Before(MaxArrayIndex, k)

RECURSIVE Ascending(_)
\* a set of array indices in ascending numeric order
Ascending(indices) ==
  IF indices = {} THEN <<>>
  ELSE LET least == CHOOSE k \in indices :
                      \A j \in indices \ {k} : Before(k, j)
       IN <<least>> \o Ascending(indices \ {least})

RECURSIVE IndexFirst(_, _, _)
\* the first n names of written: the array indices among them and those of
\* indices in ascending order, then the other names in the order written
IndexFirst(written, n, indices) ==
  IF n = 0 THEN Ascending(indices)
  ELSE IF IsArrayIndex(written[n])
       THEN IndexFirst(written, n - 1, indices \cup {written[n]})
       ELSE Append(IndexFirst(written, n - 1, indices), written[n])

\* the own property names of an object whose properties were created in the
\* order written: the array indices in ascending numeric order, then the
\* other names in the order of creation
OwnKeys(written) ==
  IF \A i \in DOMAIN written :
       written[i] = "" \/ SubSeq(written[i], 1, 1) \notin DigitSet
  THEN written
  ELSE IndexFirst(written, Len(written), {})

\* an object: its properties, and their names in the order in which the
\* literal writes them or the parser meets them
Obj(keys, f) == [t |-> "obj", o |-> f, keys |-> OwnKeys(keys)]
Arr(a) == [t |-> "arr", a |-> a]
\* a string holding JSON text, kept as its tokens
JsonStr(text) == [t |-> "json", text |-> text]
\* a string holding a path, kept as its segments
PathStr(p) == [t |-> "path", p |-> p]

EmptyObj == [k \in {} |-> Undefined]

\* ToBoolean: undefined, null, false, 0 and "" are falsy, everything else truthy
Truthy(v) ==
  CASE v.t = "undefined" -> FALSE
    [] v.t = "null" -> FALSE
    [] v.t = "bool" -> v.b
    [] v.t = "num" -> v.n # 0
    [] v.t = "str" -> v.s # ""
    [] v.t = "json" -> v.text # <<>>
    [] v.t = "path" -> v.p.abs \/ v.p.segs # <<>>
    [] OTHER -> TRUE

\* a || b
Or(a, b) == IF Truthy(a) THEN a ELSE b

\* reading a property of null or undefined throws a TypeError
CanRead(v) == v.t \notin {"undefined", "null"}

\* v.k for a value whose properties can be read; a missing property, and any
\* of the names used here on a primitive or an array, is undefined
Get(v, k) ==
  IF v.t = "obj" /\ k \in DOMAIN v.o THEN v.o[k] ELSE Undefined

\* k in v, for an object v
Has(v, k) == v.t = "obj" /\ k \in DOMAIN v.o

\* an Error instance; name distinguishes the subclasses, all instanceof Error
Error(message) == [t |-> "error", name |-> "Error", message |-> message]
TypeError(message) == [t |-> "error", name |-> "TypeError", message |-> message]

InstanceofError(v) == v.t = "error"

\* outcome of a call: it returns a value or throws one
Return(v) == [kind |-> "return", value |-> v]
Throw(e) == [kind |-> "throw", error |-> e]

----------------------------------------------------------------------------
(* JSON text, as the sequence of its lexical tokens *)

LBrace == [k |-> "{"]
RBrace == [k |-> "}"]
LBracket == [k |-> "["]
RBracket == [k |-> "]"]
Colon == [k |-> ":"]
Comma == [k |-> ","]
NullTok == [k |-> "null"]
TrueTok == [k |-> "true"]
FalseTok == [k |-> "false"]
StrTok(s) == [k |-> "str", s |-> s]
NumTok(n) == [k |-> "num", n |-> n]
\* insignificant white space
WS == [k |-> "ws"]
\* characters that start no JSON token, such as the i of  invalid-json{
BadTok(w) == [k |-> "bad", w |-> w]

NotWS(tok) == tok.k # "ws"

ParseOk(v, rest) == [ok |-> TRUE, v |-> v, rest |-> rest]
ParseFail == [ok |-> FALSE]

RECURSIVE ParseValue(_)
RECURSIVE ParseMembers(_, _)
RECURSIVE ParseElements(_, _)

\* one JSON value at the head of ts
ParseValue(ts) ==
  IF ts = <<>> THEN ParseFail
  ELSE LET h == Head(ts)
           r == Tail(ts)
       IN CASE h.k = "null" -> ParseOk(Null, r)
            [] h.k = "true" -> ParseOk(Bool(TRUE), r)
            [] h.k = "false" -> ParseOk(Bool(FALSE), r)
            [] h.k = "num" -> ParseOk(Num(h.n), r)
            [] h.k = "str" -> ParseOk(Str(h.s), r)
            [] h.k = "{" ->
                 IF r # <<>> /\ Head(r).k = "}"
                 THEN ParseOk(Obj(<<>>, EmptyObj), Tail(r))
                 ELSE ParseMembers(r, Obj(<<>>, EmptyObj))
            [] h.k = "[" ->
                 IF r # <<>> /\ Head(r).k = "]"
                 THEN ParseOk(Arr(<<>>), Tail(r))
                 ELSE ParseElements(r, <<>>)
            [] OTHER -> ParseFail

\* "key": value, then either , and more members or the closing brace; each
\* member creates a property of the object, so a repeated key keeps its
\* first place and its last value, and the array indices come first
ParseMembers(ts, acc) ==
  IF Len(ts) < 2 \/ ts[1].k # "str" \/ ts[2].k # ":" THEN ParseFail
  ELSE LET key == ts[1].s
           pv == ParseValue(SubSeq(ts, 3, Len(ts)))
       IN IF ~pv.ok THEN ParseFail
          ELSE LET acc2 == Obj(IF key \in DOMAIN acc.o THEN acc.keys
                               ELSE Append(acc.keys, key),
                               [x \in (DOMAIN acc.o) \cup {key} |->
                                  IF x = key THEN pv.v ELSE acc.o[x]])
               IN IF pv.rest = <<>> THEN ParseFail
                  ELSE IF Head(pv.rest).k = "}"
                       THEN ParseOk(acc2, Tail(pv.rest))
                  ELSE IF Head(pv.rest).k = ","
                       THEN ParseMembers(Tail(pv.rest), acc2)
                  ELSE ParseFail

\* value, then either , and more elements or the closing bracket
ParseElements(ts, acc) ==
  LET pv == ParseValue(ts)
  IN IF ~pv.ok THEN ParseFail
     ELSE LET acc2 == Append(acc, pv.v)
          IN IF pv.rest = <<>> THEN ParseFail
             ELSE IF Head(pv.rest).k = "]"
                  THEN ParseOk(Arr(acc2), Tail(pv.rest))
             ELSE IF Head(pv.rest).k = ","
                  THEN ParseElements(Tail(pv.rest), acc2)
             ELSE ParseFail

\* JSON.parse(text): the value, or a SyntaxError when text is not exactly one
\* JSON value surrounded by optional white space
JSONParse(text) ==
  LET p == ParseValue(SelectSeq(text, NotWS))
  IN IF p.ok /\ p.rest = <<>> THEN [ok |-> TRUE, v |-> p.v] ELSE [ok |-> FALSE]

RECURSIVE JSONText(_), JSONMembers(_, _, _), JSONElements(_, _)
\* the JSON text of a value, as tokens
JSONText(v) ==
  CASE v.t = "str" -> <<StrTok(v.s)>>
    [] v.t = "num" -> <<NumTok(v.n)>>
    [] v.t = "bool" -> <<IF v.b THEN TrueTok ELSE FalseTok>>
    [] v.t = "null" -> <<NullTok>>
    [] v.t = "arr" -> <<LBracket>> \o JSONElements(v.a, 1) \o <<RBracket>>
    [] v.t = "obj" -> <<LBrace>> \o JSONMembers(v, 1, TRUE) \o <<RBrace>>

\* every property of the object in the order of insertion; a property whose
\* value is undefined is left out
JSONMembers(obj, i, first) ==
  IF i > Len(obj.keys) THEN <<>>
  ELSE IF obj.o[obj.keys[i]] # Undefined
       THEN (IF first THEN <<>> ELSE <<Comma>>)
            \o <<StrTok(obj.keys[i]), Colon>> \o JSONText(obj.o[obj.keys[i]])
            \o JSONMembers(obj, i + 1, FALSE)
       ELSE JSONMembers(obj, i + 1, first)

\* an element that is undefined is written as null
JSONElements(a, i) ==
  IF i > Len(a) THEN <<>>
  ELSE (IF i > 1 THEN <<Comma>> ELSE <<>>)
       \o (IF a[i] = Undefined THEN <<NullTok>> ELSE JSONText(a[i]))
       \o JSONElements(a, i + 1)

\* JSON.stringify(value): undefined for undefined, else the JSON text
JSONStringify(v) == IF v = Undefined THEN Undefined ELSE JsonStr(JSONText(v))

----------------------------------------------------------------------------
(* Paths, as the sequence of their segments *)

\* a path string: absolute or relative, with its segments; "" has none
Path(abs, segs) == [abs |-> abs, segs |-> segs]

\* process.cwd()
Cwd == <<"srv", "app">>

RECURSIVE Normalize(_, _)
\* drops . segments and resolves .. against the segments before it
Normalize(segs, acc) ==
  IF segs = <<>> THEN acc
  ELSE LET s == Head(segs)
       IN IF s = "." THEN Normalize(Tail(segs), acc)
          ELSE IF s = ".."
               THEN Normalize(Tail(segs),
                              IF acc = <<>> THEN acc
                              ELSE SubSeq(acc, 1, Len(acc) - 1))
          ELSE Normalize(Tail(segs), Append(acc, s))

\* path.resolve(p): the normalised absolute path, as its segments
PathResolve(p) ==
  Normalize(IF p.abs THEN p.segs ELSE Cwd \o p.segs, <<>>)

RECURSIVE RenderSegs(_)
RenderSegs(segs) ==
  IF segs = <<>> THEN <<>>
  ELSE <<"/", Head(segs)>> \o RenderSegs(Tail(segs))

\* the absolute path as string fragments: /seg/seg, and / for the root
RenderPath(segs) == IF segs = <<>> THEN <<"/">> ELSE RenderSegs(segs)

----------------------------------------------------------------------------
(* The file system *)

Absent == [kind |-> "absent"]
\* a directory, or a file the process may not read: it exists, reading throws
Unreadable == [kind |-> "unreadable"]
File(text) == [kind |-> "file", content |-> text]

\* fs.existsSync(p)
ExistsSync(fsys, p) == p \in DOMAIN fsys /\ fsys[p].kind # "absent"

\* fs.readFileSync(p, 'utf-8'): the content, or a thrown error
ReadFileSync(fsys, p) ==
  IF p \in DOMAIN fsys /\ fsys[p].kind = "file"
  THEN [ok |-> TRUE, content |-> fsys[p].content]
  ELSE [ok |-> FALSE]

----------------------------------------------------------------------------
(* tokens.ts: resolveTokens *)

EnvInvalidMessage == <<"GMAIL_TOKEN environment variable is not valid JSON">>

NoTokensMessage ==
  << "No Gmail tokens found. Provide tokens via: ",
     "1) GMAIL_TOKEN env var", ", ",
     "2) GMAIL_TOKEN_FILE env var pointing to JSON file", ", ",
     "3) direct function parameter" >>

\* mutant of FileFailedMessage: an unreadable or malformed file is reported
\* like a missing one
FileFailedMessage_AsMissing(tokenPath) == NoTokensMessage

FileFailedMessage(tokenPath) ==
  <<"Failed to read or parse token file at ">> \o RenderPath(tokenPath)

\* './token.json'
DefaultTokenFile == PathStr(Path(FALSE, <<".", "token.json">>))

\* mutant of TokenFile: GMAIL_TOKEN_FILE is not consulted
TokenFile_DefaultOnly(e) == DefaultTokenFile

\* process.env.GMAIL_TOKEN_FILE || './token.json'
TokenFile(e) == Or(e["GMAIL_TOKEN_FILE"], DefaultTokenFile)

\* path.resolve(tokenFile)
TokenPath(e) == PathResolve(TokenFile(e).p)

\* mutant of FromFile: a missing file gives an empty bundle
FromFile_EmptyDefault(e, fsys) ==
  LET tokenPath == TokenPath(e)
  IN IF ExistsSync(fsys, tokenPath)
     THEN LET content == ReadFileSync(fsys, tokenPath)
          IN IF content.ok /\ JSONParse(content.content).ok
             THEN Return(JSONParse(content.content).v)
             ELSE Throw(Error(FileFailedMessage(tokenPath)))
     ELSE Return(Obj(<<>>, EmptyObj))

\* Priority 3: the JSON file, and the error when there is none
FromFile(e, fsys) ==
  LET tokenPath == TokenPath(e)
  IN IF ExistsSync(fsys, tokenPath)
     THEN LET content == ReadFileSync(fsys, tokenPath)
          IN IF content.ok /\ JSONParse(content.content).ok
             THEN Return(JSONParse(content.content).v)
             ELSE Throw(Error(FileFailedMessage(tokenPath)))
     ELSE Throw(Error(NoTokensMessage))

\* mutant of FromEnv: the file is consulted before the environment variable
FromEnv_FileFirst(e, fsys) ==
  LET envToken == e["GMAIL_TOKEN"]
  IN IF FromFile(e, fsys).kind = "return" THEN FromFile(e, fsys)
     ELSE IF Truthy(envToken)
          THEN IF JSONParse(envToken.text).ok
               THEN Return(JSONParse(envToken.text).v)
               ELSE Throw(Error(EnvInvalidMessage))
     ELSE FromFile(e, fsys)

\* mutant of FromEnv: a parse failure is swallowed and the file is tried
FromEnv_Swallow(e, fsys) ==
  LET envToken == e["GMAIL_TOKEN"]
  IN IF Truthy(envToken) /\ JSONParse(envToken.text).ok
     THEN Return(JSONParse(envToken.text).v)
     ELSE FromFile(e, fsys)

\* mutant of FromEnv: GMAIL_TOKEN is parsed whenever it is set, also when it
\* is the empty string
FromEnv_WhenSet(e, fsys) ==
  LET envToken == e["GMAIL_TOKEN"]
  IN IF envToken # Undefined
     THEN IF JSONParse(envToken.text).ok
          THEN Return(JSONParse(envToken.text).v)
          ELSE Throw(Error(EnvInvalidMessage))
     ELSE FromFile(e, fsys)

\* Priority 2: the environment variable, else priority 3
FromEnv(e, fsys) ==
  LET envToken == e["GMAIL_TOKEN"]
  IN IF Truthy(envToken)
     THEN IF JSONParse(envToken.text).ok
          THEN Return(JSONParse(envToken.text).v)
          ELSE Throw(Error(EnvInvalidMessage))
     ELSE FromFile(e, fsys)

\* mutant of resolveTokens: a provided bundle without an access token is
\* passed over
resolveTokens_Validated(provided, e, fsys) ==
  IF Truthy(provided)
     /\ (Has(provided, "access_token") \/ Has(provided, "accessToken"))
  THEN Return(provided)
  ELSE FromEnv(e, fsys)

\* mutant of resolveTokens: the first bundle resolved from the environment or
\* the file is kept and returned by the later calls
resolveTokens_Cached(provided, e, fsys) ==
  LET kept == { i \in (IF hist.on THEN DOMAIN hist.calls ELSE {}) :
                  /\ hist.calls[i].arg = Undefined
                  /\ hist.calls[i].outcome.kind = "return" }
  IN IF Truthy(provided) THEN Return(provided)
     ELSE IF kept # {}
          THEN hist.calls[CHOOSE i \in kept : \A j \in kept : i <= j].outcome
          ELSE FromEnv(e, fsys)

\* resolveTokens(provided): priority 1 is the directly provided bundle
resolveTokens(provided, e, fsys) ==
  IF Truthy(provided) THEN Return(provided) ELSE FromEnv(e, fsys)

----------------------------------------------------------------------------
(* index.ts: the GmailClient constructor and createGmailClient *)

DefaultRedirectUrl == Str("http://localhost:3000/callback")

\* mutant of NormalizeField: the camel-case name is preferred
NormalizeField_CamelFirst(tokens, snake, camel) ==
  Or(Get(tokens, camel), Get(tokens, snake))

\* tokens.<snake> || tokens.<camel>
NormalizeField(tokens, snake, camel) == Or(Get(tokens, snake), Get(tokens, camel))

\* the object literal normalizedTokens: always the four snake_case keys, a
\* key whose value is undefined being an absent field
NormalizedTokens(tokens) ==
  Obj(<<"access_token", "refresh_token", "expiry_date", "token_type">>,
      [access_token |-> NormalizeField(tokens, "access_token", "accessToken"),
       refresh_token |-> NormalizeField(tokens, "refresh_token", "refreshToken"),
       expiry_date |-> NormalizeField(tokens, "expiry_date", "expiryDate"),
       token_type |-> NormalizeField(tokens, "token_type", "tokenType")])

\* new OAuth2Client(id, secret, redirect) followed by setCredentials
OAuth2Client(e, credentials) ==
  [clientId |-> e["GOOGLE_CLIENT_ID"],
   clientSecret |-> e["GOOGLE_CLIENT_SECRET"],
   redirectUri |-> Or(e["GOOGLE_REDIRECT_URL"], DefaultRedirectUrl),
   credentials |-> credentials]

ReadOfNullMessage(v, k) ==
  <<"Cannot read properties of ", v.t, " (reading '", k, "')">>

\* new GmailClient(tokens): the client, or the TypeError of reading a
\* property of null; tokens itself is only read
GmailClient(tokens, e) ==
  IF CanRead(tokens)
  THEN Return([t |-> "client",
               oauth2Client |-> OAuth2Client(e, NormalizedTokens(tokens))])
  ELSE Throw(TypeError(ReadOfNullMessage(tokens, "access_token")))

\* options?.tokens
OptionsTokens(options) ==
  IF CanRead(options) THEN Get(options, "tokens") ELSE Undefined

\* createGmailClient(options): resolution first, construction only after it
createGmailClient(options, e, fsys) ==
  LET tokens == resolveTokens(OptionsTokens(options), e, fsys)
  IN IF tokens.kind = "throw" THEN tokens ELSE GmailClient(tokens.value, e)

\* mutant of NewClient: when resolution fails a client without credentials
\* is constructed
NewClient_Lenient(tokens, e, fsys) ==
  LET resolved == resolveTokens(tokens, e, fsys)
  IN IF resolved.kind = "throw" THEN GmailClient(Obj(<<>>, EmptyObj), e)
     ELSE GmailClient(resolved.value, e)

\* mutant of NewClient: the client of the first standalone call is kept and
\* used by the later calls
NewClient_Reused(tokens, e, fsys) ==
  LET resolved == resolveTokens(tokens, e, fsys)
  IN IF hist.on /\ hist.calls # <<>> THEN hist.calls[1].client
     ELSE IF resolved.kind = "throw" THEN resolved
     ELSE GmailClient(resolved.value, e)

\* new GmailClient(resolveTokens(tokens)): the argument is evaluated first,
\* and the constructor runs only when it has a value
NewClient(tokens, e, fsys) ==
  LET resolved == resolveTokens(tokens, e, fsys)
  IN IF resolved.kind = "throw" THEN resolved
     ELSE GmailClient(resolved.value, e)

----------------------------------------------------------------------------
(* index.ts: the methods of GmailClient, up to the remote call *)

\* v?.k
OptGet(v, k) == IF CanRead(v) THEN Get(v, k) ELSE Undefined

\* a parameter with a default value: the default replaces undefined only
Default(v, d) == IF v = Undefined THEN d ELSE v

\* the string fragments of a string value; the empty string has none
Frag(v) == IF v.s = "" THEN <<>> ELSE <<v.s>>

RECURSIVE Join(_, _)
\* array.join(sep), for an array of strings
Join(a, sep) ==
  IF a = <<>> THEN <<>>
  ELSE IF Len(a) = 1 THEN Frag(a[1])
  ELSE Frag(a[1]) \o <<sep>> \o Join(Tail(a), sep)

\* `${v}`
Interpolate(v) ==
  CASE v.t = "str" -> Frag(v)
    [] v.t = "arr" -> Join(v.a, ",")
    [] v.t = "num" -> <<ToString(v.n)>>
    [] v.t = "bool" -> IF v.b THEN <<"true">> ELSE <<"false">>
    [] v.t = "obj" -> <<"[object Object]">>
    [] OTHER -> <<v.t>>

RECURSIVE JoinLines(_)
\* headers.join('\r\n')
JoinLines(lines) ==
  IF lines = <<>> THEN <<>>
  ELSE IF Len(lines) = 1 THEN lines[1]
  ELSE lines[1] \o <<"\r\n">> \o JoinLines(Tail(lines))

\* mutant of RecipientList: only the first recipient of a list is written
RecipientList_FirstOnly(to) ==
  IF to.t = "arr"
  THEN (IF to.a = <<>> THEN <<>> ELSE Frag(to.a[1]))
  ELSE Interpolate(to)

\* Array.isArray(options.to) ? options.to.join(',') : options.to
RecipientList(to) ==
  IF to.t = "arr" THEN Join(to.a, ",") ELSE Interpolate(to)

\* mutant of ContentType: the flag is tested for presence only
ContentType_FlagPresent(options) ==
  IF Has(options, "html") THEN "text/html" ELSE "text/plain"

\* 'html' in options && options.html ? 'text/html' : 'text/plain'
ContentType(options) ==
  IF Has(options, "html") /\ Truthy(Get(options, "html"))
  THEN "text/html" ELSE "text/plain"

\* mutant of ReplyHeaders: the References header is left out
ReplyHeaders_NoReferences(options) ==
  IF Has(options, "inReplyTo") /\ Truthy(Get(options, "inReplyTo"))
  THEN << <<"In-Reply-To: ">> \o Interpolate(Get(options, "inReplyTo")) >>
  ELSE <<>>

\* the headers pushed when 'inReplyTo' in options && options.inReplyTo
ReplyHeaders(options) ==
  IF Has(options, "inReplyTo") /\ Truthy(Get(options, "inReplyTo"))
  THEN << <<"In-Reply-To: ">> \o Interpolate(Get(options, "inReplyTo")),
          <<"References: ">> \o Interpolate(Get(options, "inReplyTo")) >>
  ELSE <<>>

\* mutant of buildMessage: subject and body are written as they are, without
\* their defaults
buildMessage_NoDefaults(options) ==
  LET to == RecipientList(Get(options, "to"))
      contentType == ContentType(options)
      headers == << <<"To: ">> \o to,
                    <<"Subject: ">> \o Interpolate(Get(options, "subject")),
                    <<"Content-Type: ", contentType, "; charset=\"UTF-8\"">>,
                    <<"MIME-Version: 1.0">> >>
  IN JoinLines(headers \o ReplyHeaders(options))
       \o <<"\r\n\r\n">> \o Interpolate(Get(options, "body"))

\* buildMessage(options): the envelope, as string fragments
buildMessage(options) ==
  LET to == RecipientList(Get(options, "to"))
      subject == Or(Get(options, "subject"), Str("(no subject)"))
      body == Or(Get(options, "body"), Str(""))
      contentType == ContentType(options)
      headers == << <<"To: ">> \o to,
                    <<"Subject: ">> \o Interpolate(subject),
                    <<"Content-Type: ", contentType, "; charset=\"UTF-8\"">>,
                    <<"MIME-Version: 1.0">> >>
  IN JoinLines(headers \o ReplyHeaders(options))
       \o <<"\r\n\r\n">> \o Interpolate(body)

\* Buffer.from(email).toString('base64'): the base64 text of the bytes of email
Base64(email) == [t |-> "base64", utf8 |-> email]

\* what a method does before it awaits: the remote request it issues, or the
\* error thrown while building it
Issue(api, params) == [ok |-> TRUE, api |-> api, params |-> params]
Fails(error) == [ok |-> FALSE, error |-> error]

\* the parameters of users.messages.list and users.threads.list
ListParams(userId, q, options) ==
  Obj(<<"userId", "q", "maxResults", "pageToken", "includeSpamTrash", "labelIds">>,
      [userId |-> userId,
   q |-> q,
   maxResults |-> OptGet(options, "maxResults"),
   pageToken |-> OptGet(options, "pageToken"),
   includeSpamTrash |-> OptGet(options, "includeSpamTrash"),
   labelIds |-> OptGet(options, "labelIds")])

listMessages(userId, options) ==
  Issue("users.messages.list",
        ListParams(Default(userId, Str("me")), OptGet(options, "q"), options))

getMessage(userId, messageId, format) ==
  Issue("users.messages.get",
        Obj(<<"userId", "id", "format">>,
            [userId |-> Default(userId, Str("me")), id |-> messageId,
         format |-> Default(format, Str("full"))]))

\* mutant of searchMessages: a q field of the options replaces the query
searchMessages_OptionsFirst(userId, query, options) ==
  Issue("users.messages.list",
        ListParams(Default(userId, Str("me")),
                   Default(OptGet(options, "q"), query), options))

searchMessages(userId, query, options) ==
  Issue("users.messages.list",
        ListParams(Default(userId, Str("me")), query, options))

sendMessage(userId, options) ==
  IF ~CanRead(options) THEN Fails(TypeError(ReadOfNullMessage(options, "to")))
  ELSE Issue("users.messages.send",
             Obj(<<"userId", "requestBody">>,
                 [userId |-> Default(userId, Str("me")),
              requestBody |->
                Obj(<<"raw", "threadId", "labelIds">>,
                    [raw |-> Base64(buildMessage(options)),
                     threadId |-> Get(options, "threadId"),
                     labelIds |-> Get(options, "labelIds")])]))

createDraft(userId, options) ==
  IF ~CanRead(options) THEN Fails(TypeError(ReadOfNullMessage(options, "to")))
  ELSE Issue("users.drafts.create",
             Obj(<<"userId", "requestBody">>,
                 [userId |-> Default(userId, Str("me")),
              requestBody |->
                Obj(<<"message">>, [message |->
                       Obj(<<"raw", "threadId">>,
                           [raw |-> Base64(buildMessage(options)),
                            threadId |-> Get(options, "threadId")])])]))

listLabels(userId) ==
  Issue("users.labels.list", Obj(<<"userId">>,
                                 [userId |-> Default(userId, Str("me"))]))

modifyMessageLabels(userId, messageId, options) ==
  IF ~CanRead(options)
  THEN Fails(TypeError(ReadOfNullMessage(options, "addLabelIds")))
  ELSE Issue("users.messages.modify",
             Obj(<<"userId", "id", "requestBody">>,
                 [userId |-> Default(userId, Str("me")), id |-> messageId,
              requestBody |->
                Obj(<<"addLabelIds", "removeLabelIds">>,
                    [addLabelIds |-> Get(options, "addLabelIds"),
                     removeLabelIds |-> Get(options, "removeLabelIds")])]))

trashMessage(userId, messageId) ==
  Issue("users.messages.trash",
        Obj(<<"userId", "id">>,
            [userId |-> Default(userId, Str("me")), id |-> messageId]))

untrashMessage(userId, messageId) ==
  Issue("users.messages.untrash",
        Obj(<<"userId", "id">>,
            [userId |-> Default(userId, Str("me")), id |-> messageId]))

listThreads(userId, options) ==
  Issue("users.threads.list",
        ListParams(Default(userId, Str("me")), OptGet(options, "q"), options))

getThread(userId, threadId, format) ==
  Issue("users.threads.get",
        Obj(<<"userId", "id", "format">>,
            [userId |-> Default(userId, Str("me")), id |-> threadId,
         format |-> Default(format, Str("full"))]))

----------------------------------------------------------------------------
(* index.ts: the methods of GmailClient, after the remote call *)

\* the methods that return a collection, and the response field that holds it
ListMethods == { "listMessages", "searchMessages", "listLabels", "listThreads" }

CollectionField(method) ==
  CASE method \in {"listMessages", "searchMessages"} -> "messages"
    [] method = "listLabels" -> "labels"
    [] method = "listThreads" -> "threads"

\* mutant of ListResult: the collection field is returned without a default
ListResult_NoDefault(data, field) == Get(data, field)

\* response.data.<field> || []
ListResult(data, field) == Or(Get(data, field), Arr(<<>>))

\* what a method returns for the response of its remote call
MethodResult(method, response) ==
  IF method \in ListMethods
  THEN Return(ListResult(Get(response, "data"), CollectionField(method)))
  ELSE Return(Get(response, "data"))

\* mutant of handleError: the caught value is thrown again as it is
handleError_Rethrow(error) ==
  IF InstanceofError(error)
  THEN [outcome |-> Throw(error),
        stderr |-> [text |-> <<"Gmail API error: ">> \o error.message]]
  ELSE [outcome |-> Throw(error),
        stderr |-> [text |-> <<"Unknown Gmail API error:">>, value |-> error]]

\* handleError(error): what is thrown to the caller and written to stderr
handleError(error) ==
  IF InstanceofError(error)
  THEN [outcome |-> Throw(error),
        stderr |-> [text |-> <<"Gmail API error: ">> \o error.message]]
  ELSE [outcome |-> Throw(Error(<<"Unknown Gmail API error">>)),
        stderr |-> [text |-> <<"Unknown Gmail API error:">>, value |-> error]]

----------------------------------------------------------------------------
(* The inputs the model draws from *)

\* the eight names of the fields of a bundle
FieldNames ==
  << "access_token", "refresh_token", "expiry_date", "token_type",
     "accessToken", "refreshToken", "expiryDate", "tokenType" >>

\* JSON.stringify(bundle), as the tests write GMAIL_TOKEN and the token file
Stringify(obj) == JSONText(obj)

\* the bundle of the test suites
MockTokens ==
  Obj(<<"access_token", "refresh_token", "expiry_date">>,
      [access_token |-> Str("test-access-token"),
       refresh_token |-> Str("test-refresh-token"),
       expiry_date |-> Num(1234567890)])

EnvTokens ==
  Obj(<<"access_token", "refreshToken">>,
      [access_token |-> Str("env-token"), refreshToken |-> Str("env-refresh")])

FileTokens ==
  Obj(<<"accessToken", "expiry_date">>,
      [accessToken |-> Str("file-token"), expiry_date |-> Num(1234567890)])

\* 'invalid-json{'
InvalidJson == <<BadTok("invalid-json"), LBrace>>

\* a bundle cut off before its closing brace
TruncatedJson == <<LBrace, StrTok("access_token"), Colon, StrTok("env-token")>>

\* '{"":0,"b":1,"10":1,"9":2}': the empty name, and names that are array
\* indices among the others
IndexedJson ==
  <<LBrace, StrTok(""), Colon, NumTok(0), Comma, StrTok("b"), Colon,
    NumTok(1), Comma, StrTok("10"), Colon, NumTok(1), Comma, StrTok("9"),
    Colon, NumTok(2), RBrace>>

\* what the caller passes as provided
ProvidedValues ==
  { Undefined, Obj(<<>>, EmptyObj),
    Obj(<<"refreshToken">>, [refreshToken |-> Str("direct-refresh")]),
    MockTokens }

\* what GMAIL_TOKEN holds: unset, '', ' ', a bundle, malformed text, 'null'
GmailTokenValues ==
  { Undefined, JsonStr(<<>>), JsonStr(<<WS>>), JsonStr(Stringify(EnvTokens)),
    JsonStr(InvalidJson), JsonStr(TruncatedJson), JsonStr(<<NullTok>>),
    JsonStr(IndexedJson) }

CustomTokenFile == Path(TRUE, <<"custom", "path", "token.json">>)

\* what GMAIL_TOKEN_FILE holds: unset, '', an absolute path, a relative path
\* that names the default file
GmailTokenFileValues ==
  { Undefined, PathStr(Path(FALSE, <<>>)), PathStr(CustomTokenFile),
    PathStr(Path(FALSE, <<"conf", "..", "token.json">>)) }

RedirectUrlValues == { Undefined, Str("https://app.example/callback") }

DefaultTokenPath == Cwd \o <<"token.json">>
CustomTokenPath == <<"custom", "path", "token.json">>
FsPaths == { DefaultTokenPath, CustomTokenPath }

\* a file holds a bundle, malformed text, nothing, or 'null'
FileStates ==
  { Absent, Unreadable, File(Stringify(FileTokens)), File(InvalidJson),
    File(<<>>), File(<<NullTok>>) }

EnvNames ==
  { "GMAIL_TOKEN", "GMAIL_TOKEN_FILE", "GOOGLE_CLIENT_ID",
    "GOOGLE_CLIENT_SECRET", "GOOGLE_REDIRECT_URL" }

EnvValues(name) ==
  CASE name = "GMAIL_TOKEN" -> GmailTokenValues
    [] name = "GMAIL_TOKEN_FILE" -> GmailTokenFileValues
    [] name = "GOOGLE_REDIRECT_URL" -> RedirectUrlValues
    [] name = "GOOGLE_CLIENT_ID" -> { Str("client-id") }
    [] name = "GOOGLE_CLIENT_SECRET" -> { Str("client-secret") }

\* the options of createGmailClient: none, {}, { tokens }
OptionsOf(provided) ==
  { Undefined }
  \cup { Obj(<<"tokens">>, [tokens |-> b]) : b \in provided \ {Undefined} }
  \cup { Obj(<<>>, EmptyObj) }

\* a value a caller or a JSON text may give a field: one that is truthy
TruthyValue(name) ==
  CASE name = "access_token" -> Str("snake-access")
    [] name = "accessToken" -> Str("camel-access")
    [] name = "refresh_token" -> Str("snake-refresh")
    [] name = "refreshToken" -> Str("camel-refresh")
    [] name = "expiry_date" -> Num(1234567890)
    [] name = "expiryDate" -> Num(1234567891)
    [] name = "token_type" -> Str("Bearer")
    [] name = "tokenType" -> Str("bearer")

\* and one that is falsy: the empty string, the number 0
FalsyValue(name) ==
  IF name \in {"expiry_date", "expiryDate"} THEN Num(0) ELSE Str("")

FieldNameSet == { FieldNames[i] : i \in DOMAIN FieldNames }

\* every bundle with at most MaxFields of the eight names populated, written
\* in the order of FieldNames
Bundles ==
  { Obj(SelectSeq(FieldNames, LAMBDA n : n \in DOMAIN f), f) :
      f \in UNION { [S -> BOOLEAN] :
                  S \in { T \in SUBSET FieldNameSet : Cardinality(T) <= MaxFields } } }

\* the bundle a choice of names and of truthy or falsy values stands for
BundleOf(choice) ==
  Obj(choice.keys,
      [n \in DOMAIN choice.o |->
         IF choice.o[n] THEN TruthyValue(n) ELSE FalsyValue(n)])

GeneratedBundles == { BundleOf(c) : c \in Bundles }

\* the bundles of the createGmailClient tests, as the tests write them
CamelTokens ==
  Obj(<<"accessToken", "refreshToken", "expiryDate", "tokenType">>,
      [accessToken |-> Str("camel-access"),
       refreshToken |-> Str("camel-refresh"),
       expiryDate |-> Num(1234567890), tokenType |-> Str("Bearer")])

MixedTokens ==
  Obj(<<"access_token", "refreshToken", "expiry_date", "tokenType">>,
      [access_token |-> Str("snake-access"),
       refreshToken |-> Str("camel-refresh"),
       expiry_date |-> Num(1234567890), tokenType |-> Str("Bearer")])

TestBundles == { CamelTokens, MixedTokens }

BundleValues == GeneratedBundles \cup TestBundles

----------------------------------------------------------------------------
(* State *)

NoCall == [op |-> "none"]
Idle == [pc |-> "idle"]

\* the history of resolveTokens calls: not observed, or the calls so far, each
\* with the argument, the environment and the file system it was made in
NoHistory == [on |-> FALSE]
EmptyHistory == [on |-> TRUE, calls |-> <<>>]
Record(h, call) == IF h.on THEN [h EXCEPT !.calls = Append(@, call)] ELSE h

\* the environment of the test suites: both token variables deleted
CleanEnv ==
  [n \in EnvNames |->
     IF n \in {"GOOGLE_CLIENT_ID", "GOOGLE_CLIENT_SECRET"}
     THEN CHOOSE v \in EnvValues(n) : TRUE
     ELSE Undefined]

Init ==
  /\ env = CleanEnv
  /\ fs = [p \in FsPaths |-> Absent]
  /\ last = NoCall
  /\ inv = Idle
  /\ hist = NoHistory

----------------------------------------------------------------------------
(* The process environment changes between calls *)

\* process.env[name] = value, or delete process.env[name]
SetEnv(name, value) ==
  /\ env[name] # value
  /\ env' = [env EXCEPT ![name] = value]
  /\ last' = NoCall
  /\ UNCHANGED <<fs, inv, hist>>

\* the token file is created, replaced, removed or made unreadable
SetFile(path, state) ==
  /\ fs[path] # state
  /\ fs' = [fs EXCEPT ![path] = state]
  /\ last' = NoCall
  /\ UNCHANGED <<env, inv, hist>>

----------------------------------------------------------------------------
(* Library calls *)

\* the bundle a caller handed to resolveTokens or to the constructor, as the
\* caller finds it when the call has ended: both read its properties, the
\* constructor copies them into a new literal, and neither assigns to one
SuppliedAfter(bundle) == bundle

\* mutant of ResolveTokens: a provided bundle is saved to the token file
ResolveTokens_Persist(provided) ==
  /\ last' = [op |-> "resolveTokens", arg |-> provided,
              supplied |-> SuppliedAfter(provided),
              outcome |-> resolveTokens(provided, env, fs)]
  /\ hist' = Record(hist, [arg |-> provided, env |-> env, fs |-> fs,
                           outcome |-> resolveTokens(provided, env, fs)])
  /\ fs' = IF Truthy(provided)
           THEN [fs EXCEPT ![TokenPath(env)] = File(Stringify(MockTokens))]
           ELSE fs
  /\ UNCHANGED <<env, inv>>

\* the caller calls resolveTokens(provided)
ResolveTokens(provided) ==
  /\ last' = [op |-> "resolveTokens", arg |-> provided,
              supplied |-> SuppliedAfter(provided),
              outcome |-> resolveTokens(provided, env, fs)]
  /\ hist' = Record(hist, [arg |-> provided, env |-> env, fs |-> fs,
                           outcome |-> resolveTokens(provided, env, fs)])
  /\ UNCHANGED <<env, fs, inv>>

\* the caller calls createGmailClient(options)
CreateGmailClient(options) ==
  /\ last' = [op |-> "createGmailClient", arg |-> options,
              supplied |-> SuppliedAfter(OptionsTokens(options)),
              outcome |-> createGmailClient(options, env, fs)]
  /\ UNCHANGED <<env, fs, inv, hist>>

Next ==
  \/ \E name \in EnvNames : \E value \in EnvValues(name) : SetEnv(name, value)
  \/ \E path \in FsPaths : \E state \in FileStates : SetFile(path, state)
  \/ \E provided \in ProvidedValues : ResolveTokens(provided)
  \/ \E options \in OptionsOf(ProvidedValues) : CreateGmailClient(options)

Spec == Init /\ [][Next]_vars

----------------------------------------------------------------------------
(* Credential resolution: what a call of resolveTokens was given *)

IsResolve == last.op = "resolveTokens"

\* a bundle was passed to the call
Supplied == last.arg # Undefined

\* GMAIL_TOKEN is present: set, and not to the empty string
EnvPresent ==
  env["GMAIL_TOKEN"] # Undefined /\ env["GMAIL_TOKEN"].text # <<>>

EnvParsed == JSONParse(env["GMAIL_TOKEN"].text)

\* the file GMAIL_TOKEN_FILE names: /custom/path/token.json when it holds that
\* path; <cwd>/token.json when it is unset or empty, and when it holds the
\* relative path conf/../token.json
NamedTokenPath ==
  IF env["GMAIL_TOKEN_FILE"] = PathStr(CustomTokenFile)
  THEN <<"custom", "path", "token.json">>
  ELSE <<"srv", "app", "token.json">>

NamedFile == fs[NamedTokenPath]

\* the named file exists, can be read and holds valid JSON
FileValid == NamedFile.kind = "file" /\ JSONParse(NamedFile.content).ok

FileParsed == JSONParse(NamedFile.content)

Threw(message) == last.outcome = Throw(Error(message))

\* C1: a supplied bundle wins; otherwise the parsed content of a present
\* GMAIL_TOKEN; otherwise the parsed content of the token file.  Whatever is
\* returned is the value of that one source, whole.
C1_ResolutionPriority ==
  IsResolve =>
    IF Supplied THEN last.outcome = Return(last.arg)
    ELSE IF EnvPresent
         THEN /\ EnvParsed.ok => last.outcome = Return(EnvParsed.v)
              /\ last.outcome.kind = "return" => EnvParsed.ok
         ELSE /\ FileValid => last.outcome = Return(FileParsed.v)
              /\ last.outcome.kind = "return" => FileValid

\* all three sources hold a bundle, none was supplied: the environment wins
C1_Witness ==
  /\ IsResolve /\ ~Supplied
  /\ env["GMAIL_TOKEN"] = JsonStr(Stringify(EnvTokens))
  /\ NamedFile = File(Stringify(FileTokens))
  /\ last.outcome = Return(EnvTokens)

\* C2: a supplied bundle is returned as it is, without validation and without
\* an error, whatever the environment variable and the token file hold.
C2_SuppliedReturnedAsIs ==
  (IsResolve /\ Supplied) =>
     /\ last.outcome.kind = "return"
     /\ last.outcome.value = last.arg

\* the empty bundle is supplied while GMAIL_TOKEN and the file are malformed
C2_Witness ==
  /\ IsResolve /\ last.arg = Obj(<<>>, EmptyObj)
  /\ env["GMAIL_TOKEN"] = JsonStr(InvalidJson)
  /\ NamedFile = File(InvalidJson)
  /\ last.outcome = Return(Obj(<<>>, EmptyObj))

\* C3: no bundle supplied and GMAIL_TOKEN present but not valid JSON: the call
\* fails with the environment message, also when a valid token file exists.
C3_EnvInvalidIsFatal ==
  (IsResolve /\ ~Supplied /\ EnvPresent /\ ~EnvParsed.ok) =>
     Threw(<<"GMAIL_TOKEN environment variable is not valid JSON">>)

\* malformed GMAIL_TOKEN next to a valid token file
C3_Witness ==
  /\ IsResolve /\ ~Supplied
  /\ env["GMAIL_TOKEN"] = JsonStr(InvalidJson)
  /\ FileValid
  /\ Threw(<<"GMAIL_TOKEN environment variable is not valid JSON">>)

\* C4: no bundle supplied and nothing from the environment: the file named by
\* GMAIL_TOKEN_FILE, by default ./token.json, decides.  Its parsed JSON is
\* returned when it exists and parses; otherwise the call fails.
C4_FileSource ==
  (IsResolve /\ ~Supplied /\ ~EnvPresent) =>
     IF FileValid THEN last.outcome = Return(FileParsed.v)
     ELSE last.outcome.kind = "throw" /\ InstanceofError(last.outcome.error)

\* GMAIL_TOKEN_FILE names a file that holds a bundle, the default file does not
C4_Witness ==
  /\ IsResolve /\ ~Supplied /\ ~EnvPresent
  /\ env["GMAIL_TOKEN_FILE"] = PathStr(CustomTokenFile)
  /\ fs[<<"custom", "path", "token.json">>] = File(Stringify(FileTokens))
  /\ fs[<<"srv", "app", "token.json">>] = File(<<NullTok>>)
  /\ last.outcome = Return(FileTokens)

InSeq(x, seq) == \E i \in DOMAIN seq : seq[i] = x

\* C5: no bundle, no GMAIL_TOKEN and no token file: the call fails with the
\* No Gmail tokens found error, which names the three ways to supply tokens.
C5_NoSourceError ==
  (IsResolve /\ ~Supplied /\ ~EnvPresent /\ NamedFile.kind = "absent") =>
     /\ last.outcome.kind = "throw"
     /\ InstanceofError(last.outcome.error)
     /\ Head(last.outcome.error.message)
          = "No Gmail tokens found. Provide tokens via: "
     /\ InSeq("1) GMAIL_TOKEN env var", last.outcome.error.message)
     /\ InSeq("2) GMAIL_TOKEN_FILE env var pointing to JSON file",
              last.outcome.error.message)
     /\ InSeq("3) direct function parameter", last.outcome.error.message)

\* nothing is supplied anywhere and the call has failed
C5_Witness ==
  /\ IsResolve /\ ~Supplied
  /\ env["GMAIL_TOKEN"] = Undefined /\ env["GMAIL_TOKEN_FILE"] = Undefined
  /\ NamedFile = Absent
  /\ last.outcome.kind = "throw"

EnvSourceMessage(m) ==
  m = <<"GMAIL_TOKEN environment variable is not valid JSON">>
FileSourceMessage(m) == Head(m) = "Failed to read or parse token file at "
NoSourceMessage(m) == Head(m) = "No Gmail tokens found. Provide tokens via: "

\* C6: the message of a resolution failure tells its kind: the environment
\* message exactly for malformed GMAIL_TOKEN, the file message exactly for a
\* token file that exists but cannot be read or parsed, the no-source message
\* exactly when there is no source; no message serves two kinds.
C6_DistinctMessages ==
  (IsResolve /\ last.outcome.kind = "throw") =>
     LET m == last.outcome.error.message
     IN /\ EnvSourceMessage(m) <=> (EnvPresent /\ ~EnvParsed.ok)
        /\ FileSourceMessage(m) <=>
             (~EnvPresent /\ NamedFile.kind # "absent" /\ ~FileValid)
        /\ NoSourceMessage(m) <=> (~EnvPresent /\ NamedFile.kind = "absent")
        /\ ~(EnvSourceMessage(m) /\ FileSourceMessage(m))
        /\ ~(EnvSourceMessage(m) /\ NoSourceMessage(m))
        /\ ~(FileSourceMessage(m) /\ NoSourceMessage(m))

\* an unreadable token file is reported with the file message
C6_Witness ==
  /\ IsResolve /\ ~Supplied /\ ~EnvPresent
  /\ NamedFile = Unreadable
  /\ last.outcome.kind = "throw"
  /\ FileSourceMessage(last.outcome.error.message)

----------------------------------------------------------------------------
(* Client construction over every bundle, in a fixed environment *)

InitClient ==
  /\ env \in { [CleanEnv EXCEPT !["GMAIL_TOKEN"] = v] :
                 v \in { Undefined, JsonStr(Stringify(EnvTokens)),
                         JsonStr(<<NullTok>>) } }
  /\ fs \in { [p \in FsPaths |-> IF p = DefaultTokenPath THEN st ELSE Absent] :
                 st \in { Absent, File(Stringify(FileTokens)), File(<<NullTok>>) } }
  /\ last = NoCall
  /\ inv = Idle
  /\ hist = NoHistory

\* one construction: the calls of a process do not depend on one another
NextClient ==
  /\ last = NoCall
  /\ \E options \in OptionsOf(BundleValues) : CreateGmailClient(options)

SpecClient == InitClient /\ [][NextClient]_vars

IsCreate == last.op = "createGmailClient"

\* what resolveTokens gave the constructor
UsedTokens == resolveTokens(OptionsTokens(last.arg), env, fs)

\* a bundle went into the constructor and a client came out
Constructed ==
  /\ IsCreate
  /\ UsedTokens.kind = "return" /\ UsedTokens.value.t = "obj"
  /\ last.outcome.kind = "return"

Credentials == last.outcome.value.oauth2Client.credentials

LogicalFields ==
  { <<"access_token", "accessToken">>, <<"refresh_token", "refreshToken">>,
    <<"expiry_date", "expiryDate">>, <<"token_type", "tokenType">> }

\* C7 as stated: each canonical field is the underscore value when that name is
\* present in the bundle, else the camel-case value, else unset.
C7_PresenceDecides ==
  Constructed =>
    \A f \in LogicalFields :
      LET b == UsedTokens.value
      IN Credentials.o[f[1]] =
           IF Has(b, f[1]) THEN b.o[f[1]]
           ELSE IF Has(b, f[2]) THEN b.o[f[2]]
           ELSE Undefined

\* C7 as amended: each canonical field is the underscore value when that name
\* is present with a truthy value, else the camel-case value when that name is
\* present, else unset; a truthy underscore value is never replaced.
C7_TruthyDecides ==
  Constructed =>
    \A f \in LogicalFields :
      LET b == UsedTokens.value
      IN Credentials.o[f[1]] =
           IF Has(b, f[1]) /\ Truthy(b.o[f[1]]) THEN b.o[f[1]]
           ELSE IF Has(b, f[2]) THEN b.o[f[2]]
           ELSE Undefined

\* a bundle that mixes the conventions field by field has been normalised
C7_Witness ==
  /\ Constructed
  /\ UsedTokens.value = Obj(<<"access_token", "refreshToken">>,
                            [access_token |-> Str("snake-access"),
                             refreshToken |-> Str("camel-refresh")])
  /\ Credentials.o["access_token"] = Str("snake-access")
  /\ Credentials.o["refresh_token"] = Str("camel-refresh")
  /\ Credentials.o["expiry_date"] = Undefined

\* C8: normalisation never fails: whenever resolveTokens returns a value,
\* construction completes, and a field absent under both names is absent from
\* the credentials.
C8_NormalizationTotal ==
  (IsCreate /\ UsedTokens.kind = "return") =>
     /\ last.outcome.kind = "return"
     /\ \A f \in LogicalFields :
          (~Has(UsedTokens.value, f[1]) /\ ~Has(UsedTokens.value, f[2]))
             => Credentials.o[f[1]] = Undefined

----------------------------------------------------------------------------
(* The facade: arguments of the calls and answers of the remote API *)

UserIds == { Undefined, Str("user@example.com") }

ListOptions ==
  { Undefined,
    Obj(<<"q", "maxResults">>,
        [q |-> Str("is:unread"), maxResults |-> Num(10)]),
    Obj(<<"labelIds", "includeSpamTrash", "pageToken">>,
        [labelIds |-> Arr(<<Str("INBOX")>>), includeSpamTrash |-> Bool(TRUE),
         pageToken |-> Str("page-2")]) }

SearchOptions ==
  { Undefined, Obj(<<"maxResults">>, [maxResults |-> Num(5)]),
    Obj(<<"q", "maxResults">>,
        [q |-> Str("is:starred"), maxResults |-> Num(5)]) }

Queries == { Str("from:test@example.com"), Str("is:unread") }
MessageIds == { Str("msg1") }
ThreadIds == { Str("thread1") }
MessageFormats == { Undefined, Str("raw") }
ThreadFormats == { Undefined, Str("minimal") }

\* to: one address, or a list of at most MaxColl addresses in any order
Addresses == { Str("a@example.com"), Str("b@example.com") }
RecipientLists == UNION { [1..n -> Addresses] : n \in 0..MaxColl }
Recipients == Addresses \cup { Arr(r) : r \in RecipientLists }

\* html?: boolean, left out, true or false
HtmlChoices == { EmptyObj, [html |-> Bool(TRUE)], [html |-> Bool(FALSE)] }

\* inReplyTo?: string, left out, a message id or the empty string
ReplyChoices ==
  { EmptyObj, [inReplyTo |-> Str("<id-1@mail>")], [inReplyTo |-> Str("")] }

\* subject? and body?: one or both left out, or empty
SparseMailOptions ==
  { Obj(<<"to">>, [to |-> Str("a@example.com")]),
    Obj(<<"to", "subject">>,
        [to |-> Str("a@example.com"), subject |-> Str("Only subject")]),
    Obj(<<"to", "body">>,
        [to |-> Str("a@example.com"), body |-> Str("Only body")]),
    Obj(<<"to", "subject", "body">>,
        [to |-> Str("a@example.com"), subject |-> Str(""), body |-> Str("")]),
    Obj(<<"to", "inReplyTo">>,
        [to |-> Str("a@example.com"), inReplyTo |-> Str("<id-1@mail>")]) }

TestSendOptions ==
  { Obj(<<"to", "subject", "body">>,
        [to |-> Str("test@example.com"), subject |-> Str("Test"),
         body |-> Str("Hello")]),
    Obj(<<"to", "subject", "body", "html", "inReplyTo", "threadId", "labelIds">>,
        [to |-> Arr(<<Str("a@example.com"), Str("b@example.com")>>),
         subject |-> Str("Re: Test"), body |-> Str("<p>Hello</p>"),
         html |-> Bool(TRUE), inReplyTo |-> Str("<id-1@mail>"),
         threadId |-> Str("thread1"), labelIds |-> Arr(<<Str("SENT")>>)]),
    Obj(<<"to", "html">>,
        [to |-> Str("test@example.com"), html |-> Bool(FALSE)]) }
\* the name a choice adds to a literal, if it adds one
ChoiceKey(c) == IF DOMAIN c = {} THEN <<>> ELSE <<CHOOSE k \in DOMAIN c : TRUE>>

GeneratedSendOptions ==
  { Obj(<<"to", "subject", "body">> \o ChoiceKey(h) \o ChoiceKey(i),
        [to |-> r, subject |-> Str("Test"), body |-> Str("Hello")] @@ h @@ i) :
      r \in Recipients, h \in HtmlChoices, i \in ReplyChoices }
SendOptions == TestSendOptions \cup GeneratedSendOptions \cup SparseMailOptions

TestDraftOptions ==
  { Obj(<<"to", "subject", "body">>,
        [to |-> Str("test@example.com"), subject |-> Str("Draft"),
         body |-> Str("Hello")]),
    Obj(<<"to", "html", "threadId">>,
        [to |-> Arr(<<Str("a@example.com"), Str("b@example.com")>>),
         html |-> Bool(TRUE), threadId |-> Str("thread1")]) }
GeneratedDraftOptions ==
  { Obj(<<"to", "subject", "body">> \o ChoiceKey(h),
        [to |-> r, subject |-> Str("Draft"), body |-> Str("Hello")] @@ h) :
      r \in Recipients, h \in HtmlChoices }
DraftOptions == TestDraftOptions \cup GeneratedDraftOptions \cup SparseMailOptions

ModifyOptions ==
  { Obj(<<"addLabelIds">>, [addLabelIds |-> Arr(<<Str("STARRED")>>)]),
    Obj(<<"addLabelIds", "removeLabelIds">>,
        [addLabelIds |-> Arr(<<Str("STARRED")>>),
         removeLabelIds |-> Arr(<<Str("UNREAD")>>)]) }

\* the records a remote collection holds
Items(field) ==
  CASE field = "messages" ->
         { Obj(<<"id", "threadId">>,
               [id |-> Str("msg1"), threadId |-> Str("thread1")]),
           Obj(<<"threadId", "id", "labelIds">>,
                   [id |-> Str("msg2"), threadId |-> Str("thread2"),
                    labelIds |-> Arr(<<Str("INBOX")>>)]) }
    [] field = "labels" ->
         { Obj(<<"id", "name">>, [id |-> Str("INBOX"), name |-> Str("INBOX")]),
           Obj(<<"id", "name">>,
               [id |-> Str("Label_1"), name |-> Str("Work")]) }
    [] field = "threads" ->
         { Obj(<<"id", "snippet">>,
               [id |-> Str("thread1"), snippet |-> Str("Hi")]),
           Obj(<<"id", "snippet">>,
               [id |-> Str("thread2"), snippet |-> Str("Yo")]) }

\* every sequence of at most MaxColl of them, in every order
Collections(field) ==
  UNION { [1..n -> Items(field)] : n \in 0..MaxColl }

ApiCollection(api) ==
  CASE api = "users.messages.list" -> "messages"
    [] api = "users.labels.list" -> "labels"
    [] api = "users.threads.list" -> "threads"

ListApis == { "users.messages.list", "users.labels.list", "users.threads.list" }

\* response.data of a remote call that succeeds: a list call answers with or
\* without its collection field, any other call with a record
ResponseData(api) ==
  IF api \in ListApis
  THEN { Obj(<<>>, EmptyObj), Obj(<<"resultSizeEstimate">>,
                                  [resultSizeEstimate |-> Num(0)]),
         Obj(<<ApiCollection(api)>>, (ApiCollection(api) :> Null)) }
       \cup { Obj(<<ApiCollection(api)>>, (ApiCollection(api) :> Arr(c))) :
                c \in Collections(ApiCollection(api)) }
       \cup { Obj(<<ApiCollection(api), "nextPageToken">>,
                  (ApiCollection(api) :> Arr(c))
                    @@ [nextPageToken |-> Str("page-2")]) :
                c \in { d \in Collections(ApiCollection(api)) : Len(d) = 1 } }
  ELSE { Obj(<<"id", "threadId">>,
             [id |-> Str("msg1"), threadId |-> Str("thread1")]),
         Obj(<<"id", "messages">>, [id |-> Str("thread1"),
              messages |-> Arr(<<Obj(<<"id">>, [id |-> Str("msg1")])>>)]),
         Obj(<<"threadId", "id", "labelIds">>,
                 [id |-> Str("msg1"), threadId |-> Str("thread1"),
                  labelIds |-> Arr(<<Str("INBOX"), Str("CUSTOM")>>)]),
         Obj(<<"id", "message">>,
             [id |-> Str("draft1"), message |-> Obj(<<"id">>,
                                                    [id |-> Str("msg1")])]) }

Responses(api) == { Obj(<<"data", "status">>,
                        [data |-> d, status |-> Num(200)]) : d \in ResponseData(api) }

\* what a remote call that fails rejects with: Error instances, and values
\* that are not: a string, a plain object with a message, undefined
Rejections ==
  { Error(<<"API Error">>), TypeError(<<"fetch failed">>), Str("string error"),
    Obj(<<"message">>, [message |-> Str("Rate limit exceeded")]), Undefined }

----------------------------------------------------------------------------
(* The facade: one invocation of a method *)

\* createGmailClient has returned a client
ClientReady == last.op = "createGmailClient" /\ last.outcome.kind = "return"

\* the frame of a method of a client that has run up to its await, or has
\* failed before it
Started(client, method, args, call) ==
  IF call.ok
  THEN [pc |-> "awaiting", method |-> method, args |-> args,
        issued |-> 1,
        request |-> [api |-> call.api, params |-> call.params,
                     auth |-> client.oauth2Client]]
  ELSE [pc |-> "settled", method |-> method, args |-> args,
        issued |-> 0,
        outcome |-> handleError(call.error).outcome,
        stderr |-> handleError(call.error).stderr]

\* the method runs up to its await, or fails before it
Invoke(method, args, call) ==
  /\ inv.pc # "awaiting"
  /\ inv' = Started(last.outcome.value, method, args, call)
  /\ UNCHANGED <<env, fs, last, hist>>

ListMessages(userId, options) ==
  /\ ClientReady
  /\ Invoke("listMessages", <<userId, options>>, listMessages(userId, options))

GetMessage(userId, messageId, format) ==
  /\ ClientReady
  /\ Invoke("getMessage", <<userId, messageId, format>>,
            getMessage(userId, messageId, format))

SearchMessages(userId, query, options) ==
  /\ ClientReady
  /\ Invoke("searchMessages", <<userId, query, options>>,
            searchMessages(userId, query, options))

SendMessage(userId, options) ==
  /\ ClientReady
  /\ Invoke("sendMessage", <<userId, options>>, sendMessage(userId, options))

CreateDraft(userId, options) ==
  /\ ClientReady
  /\ Invoke("createDraft", <<userId, options>>, createDraft(userId, options))

ListLabels(userId) ==
  /\ ClientReady
  /\ Invoke("listLabels", <<userId>>, listLabels(userId))

ModifyMessageLabels(userId, messageId, options) ==
  /\ ClientReady
  /\ Invoke("modifyMessageLabels", <<userId, messageId, options>>,
            modifyMessageLabels(userId, messageId, options))

TrashMessage(userId, messageId) ==
  /\ ClientReady
  /\ Invoke("trashMessage", <<userId, messageId>>, trashMessage(userId, messageId))

UntrashMessage(userId, messageId) ==
  /\ ClientReady
  /\ Invoke("untrashMessage", <<userId, messageId>>,
            untrashMessage(userId, messageId))

ListThreads(userId, options) ==
  /\ ClientReady
  /\ Invoke("listThreads", <<userId, options>>, listThreads(userId, options))

GetThread(userId, threadId, format) ==
  /\ ClientReady
  /\ Invoke("getThread", <<userId, threadId, format>>,
            getThread(userId, threadId, format))

\* mutant of ResolvedWith: the method whose result is computed is the one
\* started last, as if the client kept it in a field
ResolvedWith_Shared(frame, response) ==
  [pc |-> "settled",
   remote |-> [kind |-> "resolve", response |-> response],
   outcome |-> MethodResult(IF inv.pc = "concurrent"
                            THEN inv.frames[Len(inv.frames)].method
                            ELSE frame.method, response)] @@ frame

\* the frame after its await has returned the response
ResolvedWith(frame, response) ==
  [pc |-> "settled",
   remote |-> [kind |-> "resolve", response |-> response],
   outcome |-> MethodResult(frame.method, response)] @@ frame

\* the frame after its await has thrown the reason
RejectedWith(frame, reason) ==
  [pc |-> "settled",
   remote |-> [kind |-> "reject", reason |-> reason],
   outcome |-> handleError(reason).outcome,
   stderr |-> handleError(reason).stderr] @@ frame

\* the remote call succeeds: the method returns its result
RemoteResolve(response) ==
  /\ inv.pc = "awaiting"
  /\ inv' = ResolvedWith(inv, response)
  /\ UNCHANGED <<env, fs, last, hist>>

\* mutant of RemoteReject: a failed remote call is issued a second time
RemoteReject_Retry(reason) ==
  /\ inv.pc = "awaiting"
  /\ inv' = IF inv.issued < 2
            THEN [inv EXCEPT !.issued = @ + 1]
            ELSE [pc |-> "settled", method |-> inv.method, args |-> inv.args,
                  issued |-> inv.issued, request |-> inv.request,
                  remote |-> [kind |-> "reject", reason |-> reason],
                  outcome |-> handleError(reason).outcome,
                  stderr |-> handleError(reason).stderr]
  /\ UNCHANGED <<env, fs, last, hist>>

\* the remote call fails: the catch block hands the reason to handleError
RemoteReject(reason) ==
  /\ inv.pc = "awaiting"
  /\ inv' = RejectedWith(inv, reason)
  /\ UNCHANGED <<env, fs, last, hist>>

\* a client made from the bundle of the test suite
InitFacade ==
  /\ env = CleanEnv
  /\ fs = [p \in FsPaths |-> Absent]
  /\ last = [op |-> "createGmailClient",
             arg |-> Obj(<<"tokens">>, [tokens |-> MockTokens]),
             supplied |-> SuppliedAfter(MockTokens),
             outcome |-> createGmailClient(Obj(<<"tokens">>,
                                               [tokens |-> MockTokens]),
                                           CleanEnv, [p \in FsPaths |-> Absent])]
  /\ inv = Idle
  /\ hist = NoHistory

NextFacade ==
  \/ \E u \in UserIds, o \in ListOptions : ListMessages(u, o)
  \/ \E u \in UserIds, m \in MessageIds, f \in MessageFormats : GetMessage(u, m, f)
  \/ \E u \in UserIds, q \in Queries, o \in SearchOptions : SearchMessages(u, q, o)
  \/ \E u \in UserIds, o \in SendOptions : SendMessage(u, o)
  \/ \E u \in UserIds, o \in DraftOptions : CreateDraft(u, o)
  \/ \E u \in UserIds : ListLabels(u)
  \/ \E u \in UserIds, m \in MessageIds, o \in ModifyOptions :
       ModifyMessageLabels(u, m, o)
  \/ \E u \in UserIds, m \in MessageIds : TrashMessage(u, m)
  \/ \E u \in UserIds, m \in MessageIds : UntrashMessage(u, m)
  \/ \E u \in UserIds, o \in ListOptions : ListThreads(u, o)
  \/ \E u \in UserIds, t \in ThreadIds, f \in ThreadFormats : GetThread(u, t, f)
  \/ inv.pc = "awaiting" /\ \E r \in Responses(inv.request.api) : RemoteResolve(r)
  \/ \E r \in Rejections : RemoteReject(r)

SpecFacade == InitFacade /\ [][NextFacade]_vars

----------------------------------------------------------------------------
(* The facade: results and failures *)

Settled == inv.pc = "settled"
Resolved == Settled /\ inv.remote.kind = "resolve"
Rejected == Settled /\ inv.remote.kind = "reject"

\* the field of the response that holds the collection of a list method
FieldOf(method) ==
  CASE method = "listMessages" -> "messages"
    [] method = "searchMessages" -> "messages"
    [] method = "listLabels" -> "labels"
    [] method = "listThreads" -> "threads"

\* C9: a list method returns the collection of the response as it is, in the
\* same order, when the response carries one, and the empty sequence, never
\* an absent value, when the response has no such field.
C9_ListDefaultsToEmpty ==
  (Resolved /\ inv.method \in
      {"listMessages", "searchMessages", "listLabels", "listThreads"}) =>
     LET data == inv.remote.response.o["data"]
         field == FieldOf(inv.method)
     IN /\ inv.outcome.kind = "return"
        /\ inv.outcome.value.t = "arr"
        /\ (field \in DOMAIN data.o /\ data.o[field].t = "arr")
             => inv.outcome.value = data.o[field]
        /\ field \notin DOMAIN data.o => inv.outcome.value = Arr(<<>>)

\* listThreads got a response without threads and returned the empty sequence
C9_Witness ==
  /\ Resolved /\ inv.method = "listThreads"
  /\ inv.remote.response.o["data"] = Obj(<<"resultSizeEstimate">>,
                                         [resultSizeEstimate |-> Num(0)])
  /\ inv.outcome = Return(Arr(<<>>))

\* C10: when the remote call fails the method throws: the very error when the
\* reason is an Error, and otherwise an Error with the generic message, never
\* the reason itself.
C10_ErrorsNormalized ==
  Rejected =>
    /\ inv.outcome.kind = "throw"
    /\ InstanceofError(inv.outcome.error)
    /\ IF inv.remote.reason.t = "error"
       THEN /\ inv.outcome.error.message = inv.remote.reason.message
            /\ inv.outcome.error = inv.remote.reason
       ELSE /\ inv.outcome.error.message = <<"Unknown Gmail API error">>
            /\ inv.outcome.error # inv.remote.reason

\* a remote call rejected with a bare string
C10_Witness ==
  /\ Rejected /\ inv.method = "sendMessage"
  /\ inv.remote.reason = Str("string error")
  /\ inv.outcome = Throw(Error(<<"Unknown Gmail API error">>))

----------------------------------------------------------------------------
(* The facade: the envelope of sendMessage and createDraft *)

\* a mail method has built its envelope and issued its remote call
IsMail ==
  /\ inv.pc \in {"awaiting", "settled"}
  /\ inv.method \in {"sendMessage", "createDraft"}
  /\ inv.issued = 1

\* the options the method was called with
MailOptions == inv.args[2]

\* the envelope before base64, taken from the remote request
Envelope ==
  IF inv.method = "sendMessage"
  THEN inv.request.params.o["requestBody"].o["raw"].utf8
  ELSE inv.request.params.o["requestBody"].o["message"].o["raw"].utf8

RECURSIVE SplitHeaders(_, _, _)
\* the header lines of an envelope: what stands before the first empty line,
\* cut at the line breaks
SplitHeaders(frags, cur, acc) ==
  IF frags = <<>> \/ Head(frags) = "\r\n\r\n" THEN Append(acc, cur)
  ELSE IF Head(frags) = "\r\n" THEN SplitHeaders(Tail(frags), <<>>, Append(acc, cur))
  ELSE SplitHeaders(Tail(frags), Append(cur, Head(frags)), acc)

HeaderLines == SplitHeaders(Envelope, <<>>, <<>>)

\* the header lines that begin with the given header name
Named(name) ==
  { i \in DOMAIN HeaderLines : HeaderLines[i] # <<>> /\ HeaderLines[i][1] = name }

\* the addresses of a list with one comma between neighbours
Commas(a) ==
  [i \in 1..(IF a = <<>> THEN 0 ELSE 2 * Len(a) - 1) |->
     IF i % 2 = 1 THEN a[(i + 1) \div 2].s ELSE ","]

\* C14: the envelope has one recipient header: 'To: ' followed by the
\* recipients of a list in the given order with a single comma between them,
\* or by the recipient as it is when a single string was given.
C14_RecipientHeader ==
  IsMail =>
    LET to == MailOptions.o["to"]
    IN /\ Cardinality(Named("To: ")) = 1
       /\ \A i \in Named("To: ") :
            HeaderLines[i] = <<"To: ">> \o (IF to.t = "arr" THEN Commas(to.a)
                                            ELSE <<to.s>>)

\* sendMessage to two recipients, the second one first
C14_Witness ==
  /\ IsMail /\ inv.method = "sendMessage"
  /\ MailOptions.o["to"] = Arr(<<Str("b@example.com"), Str("a@example.com")>>)
  /\ HeaderLines[1] = <<"To: ", "b@example.com", ",", "a@example.com">>

\* the html flag was supplied and is true
HtmlFlag == "html" \in DOMAIN MailOptions.o /\ MailOptions.o["html"] = Bool(TRUE)

\* C15: the envelope has exactly one Content-Type header; it says text/html
\* when the html flag is supplied and true, and text/plain when the flag is
\* false or left out, for sendMessage and createDraft alike.
C15_ContentType ==
  IsMail =>
    /\ Cardinality(Named("Content-Type: ")) = 1
    /\ \A i \in Named("Content-Type: ") :
         HeaderLines[i] = <<"Content-Type: ",
                            IF HtmlFlag THEN "text/html" ELSE "text/plain",
                            "; charset=\"UTF-8\"">>

\* createDraft with the html flag supplied as false
C15_Witness ==
  /\ IsMail /\ inv.method = "createDraft"
  /\ "html" \in DOMAIN MailOptions.o /\ MailOptions.o["html"] = Bool(FALSE)
  /\ HeaderLines[3] = <<"Content-Type: ", "text/plain", "; charset=\"UTF-8\"">>

\* an in-reply-to identifier was supplied: the empty string is none
ReplyId ==
  IF "inReplyTo" \in DOMAIN MailOptions.o /\ MailOptions.o["inReplyTo"].t = "str"
       /\ MailOptions.o["inReplyTo"].s # ""
  THEN <<MailOptions.o["inReplyTo"].s>>
  ELSE <<>>

\* C16: when an in-reply-to identifier is supplied the envelope has one
\* In-Reply-To header and one References header, both citing that identifier;
\* when none is supplied it has neither; it never has one without the other.
C16_ReplyHeaders ==
  IsMail =>
    /\ Cardinality(Named("In-Reply-To: ")) = Cardinality(Named("References: "))
    /\ IF ReplyId # <<>>
       THEN /\ Cardinality(Named("In-Reply-To: ")) = 1
            /\ \A i \in Named("In-Reply-To: ") :
                 HeaderLines[i] = <<"In-Reply-To: ">> \o ReplyId
            /\ \A i \in Named("References: ") :
                 HeaderLines[i] = <<"References: ">> \o ReplyId
       ELSE Named("In-Reply-To: ") = {} /\ Named("References: ") = {}

\* sendMessage in reply to a message
C16_Witness ==
  /\ IsMail /\ inv.method = "sendMessage"
  /\ ReplyId = <<"<id-1@mail>">>
  /\ HeaderLines[5] = <<"In-Reply-To: ", "<id-1@mail>">>
  /\ HeaderLines[6] = <<"References: ", "<id-1@mail>">>

----------------------------------------------------------------------------
(* The facade: remote calls per invocation *)

\* C20: an invocation of a facade method issues exactly one remote call: while
\* it waits one call is out, and once it has returned or thrown, after the
\* answer or the failure of that call, still exactly one call was issued.
C20_OneRemoteCall ==
  /\ inv.pc = "awaiting" => inv.issued = 1
  /\ Settled =>
       /\ inv.issued = 1
       /\ inv.remote.kind = "resolve" => inv.outcome.kind = "return"
       /\ inv.remote.kind = "reject" => inv.outcome.kind = "throw"

\* a remote call that failed, and the invocation ended with that one call
C20_Witness ==
  /\ Rejected /\ inv.method = "getMessage"
  /\ inv.remote.reason = Error(<<"API Error">>)
  /\ inv.issued = 1 /\ inv.outcome = Throw(Error(<<"API Error">>))

----------------------------------------------------------------------------
(* Credential resolution called again and again while the sources change *)

RepeatTokenValues ==
  { Undefined, JsonStr(Stringify(EnvTokens)), JsonStr(InvalidJson) }

RepeatFileStates == { Absent, File(Stringify(FileTokens)) }

RepeatProvided == { Undefined, MockTokens }

InitRepeat ==
  /\ env = CleanEnv
  /\ fs = [p \in FsPaths |-> Absent]
  /\ last = NoCall
  /\ inv = Idle
  /\ hist = EmptyHistory

NextRepeat ==
  \/ \E value \in RepeatTokenValues : SetEnv("GMAIL_TOKEN", value)
  \/ \E state \in RepeatFileStates : SetFile(DefaultTokenPath, state)
  \/ /\ Len(hist.calls) < MaxCalls
     /\ \E provided \in RepeatProvided : ResolveTokens(provided)

SpecRepeat == InitRepeat /\ [][NextRepeat]_vars

\* two calls were given the same argument, environment and file system
SameInputs(c, d) == c.arg = d.arg /\ c.env = d.env /\ c.fs = d.fs

\* the outcome of a call is the one its own argument, environment and file
\* give: the argument when one is supplied, else the bundle written in
\* GMAIL_TOKEN at the time of the call, else the bundle written in the token
\* file at the time of the call, else an error
ReflectsInputs(c) ==
  LET token == c.env["GMAIL_TOKEN"]
      file == c.fs[DefaultTokenPath]
  IN /\ c.arg # Undefined => c.outcome = Return(c.arg)
     /\ (c.arg = Undefined /\ token # Undefined) =>
          IF JSONParse(token.text).ok
          THEN c.outcome = Return(JSONParse(token.text).v)
          ELSE c.outcome.kind = "throw"
     /\ (c.arg = Undefined /\ token = Undefined /\ file.kind = "file") =>
          c.outcome = Return(JSONParse(file.content).v)
     /\ (c.arg = Undefined /\ token = Undefined /\ file.kind = "absent") =>
          c.outcome.kind = "throw"

\* C17: resolution is deterministic and not cached: two calls of resolveTokens
\* with equal argument, environment and file content have equal outcomes, and
\* the outcome of every call is the one its own inputs give, whatever the
\* calls before it returned and however the sources changed in between.
C17_DeterministicUncached ==
  /\ \A i, j \in DOMAIN hist.calls :
       SameInputs(hist.calls[i], hist.calls[j]) =>
         hist.calls[i].outcome = hist.calls[j].outcome
  /\ \A i \in DOMAIN hist.calls : ReflectsInputs(hist.calls[i])

\* a call that returned the bundle of GMAIL_TOKEN, then the variable was
\* deleted and the next call failed
C17_Witness ==
  /\ Len(hist.calls) = 2
  /\ hist.calls[1].arg = Undefined /\ hist.calls[2].arg = Undefined
  /\ hist.calls[1].env["GMAIL_TOKEN"] = JsonStr(Stringify(EnvTokens))
  /\ hist.calls[1].outcome = Return(EnvTokens)
  /\ hist.calls[2].env["GMAIL_TOKEN"] = Undefined
  /\ hist.calls[2].outcome = Throw(Error(NoTokensMessage))

----------------------------------------------------------------------------
(* index.ts: the exported standalone functions *)

\* an exported function resolves the credentials, constructs a client and
\* calls its method; the function is async, so a throw is a rejection.  The
\* call takes the place of the library call recorded before it.
Standalone(fn, args, tokens, call) ==
  /\ \E client \in {NewClient(tokens, env, fs)} :
     \E call_ \in {[fn |-> fn, method |-> fn, args |-> args, tokens |-> tokens,
                     resolution |-> resolveTokens(tokens, env, fs)]} :
        /\ inv' =
             IF client.kind = "throw"
             THEN [pc |-> "settled", issued |-> 0, outcome |-> client] @@ call_
             ELSE IF call.ok
             THEN [pc |-> "awaiting", client |-> client.value, issued |-> 1,
                   request |-> [api |-> call.api, params |-> call.params,
                                auth |-> client.value.oauth2Client]] @@ call_
             ELSE [pc |-> "settled", client |-> client.value, issued |-> 0,
                   outcome |-> handleError(call.error).outcome,
                   stderr |-> handleError(call.error).stderr] @@ call_
        /\ hist' = Record(hist, [fn |-> fn, arg |-> tokens, env |-> env, fs |-> fs,
                                 outcome |-> call_.resolution, client |-> client])
  /\ last' = NoCall
  /\ UNCHANGED <<env, fs>>

CallListMessages(userId, options, tokens) ==
  /\ inv.pc # "awaiting"
  /\ Standalone("listMessages", <<userId, options>>, tokens,
                listMessages(userId, options))

CallGetMessage(messageId, tokens, format) ==
  /\ inv.pc # "awaiting"
  /\ Standalone("getMessage", <<messageId, format>>, tokens,
                getMessage(Str("me"), messageId, format))

CallSearchMessages(query, tokens, options) ==
  /\ inv.pc # "awaiting"
  /\ Standalone("searchMessages", <<query, options>>, tokens,
                searchMessages(Str("me"), query, options))

CallSendMessage(options, tokens) ==
  /\ inv.pc # "awaiting"
  /\ Standalone("sendMessage", <<options>>, tokens, sendMessage(Str("me"), options))

CallCreateDraft(options, tokens) ==
  /\ inv.pc # "awaiting"
  /\ Standalone("createDraft", <<options>>, tokens, createDraft(Str("me"), options))

CallListLabels(tokens) ==
  /\ inv.pc # "awaiting"
  /\ Standalone("listLabels", <<>>, tokens, listLabels(Undefined))

CallModifyMessageLabels(messageId, options, tokens) ==
  /\ inv.pc # "awaiting"
  /\ Standalone("modifyMessageLabels", <<messageId, options>>, tokens,
                modifyMessageLabels(Str("me"), messageId, options))

CallTrashMessage(messageId, tokens) ==
  /\ inv.pc # "awaiting"
  /\ Standalone("trashMessage", <<messageId>>, tokens,
                trashMessage(Str("me"), messageId))

CallUntrashMessage(messageId, tokens) ==
  /\ inv.pc # "awaiting"
  /\ Standalone("untrashMessage", <<messageId>>, tokens,
                untrashMessage(Str("me"), messageId))

CallListThreads(tokens, options) ==
  /\ inv.pc # "awaiting"
  /\ Standalone("listThreads", <<options>>, tokens, listThreads(Str("me"), options))

CallGetThread(threadId, tokens, format) ==
  /\ inv.pc # "awaiting"
  /\ Standalone("getThread", <<threadId, format>>, tokens,
                getThread(Str("me"), threadId, format))

\* the tokens argument of a standalone function
TokensArgs == { Undefined, MockTokens }

\* the record the README passes as the second argument of searchMessages
ReadmeSearchArgument == Obj(<<"maxResults">>, [maxResults |-> Num(5)])
SearchTokensArgs == { Undefined, MockTokens, ReadmeSearchArgument }

\* the mail options of the test suite
StandaloneSendOptions ==
  { Obj(<<"to", "subject", "body">>,
        [to |-> Str("test@example.com"), subject |-> Str("Test"),
         body |-> Str("Hello")]) }

StandaloneDraftOptions ==
  { Obj(<<"to", "subject", "body">>,
        [to |-> Str("test@example.com"), subject |-> Str("Draft"),
         body |-> Str("Hello")]) }

\* GMAIL_TOKEN unset, a bundle or invalid; the token file absent, a bundle or
\* unreadable
InitStandalone ==
  /\ env \in { [CleanEnv EXCEPT !["GMAIL_TOKEN"] = v] :
                 v \in { Undefined, JsonStr(Stringify(EnvTokens)),
                         JsonStr(InvalidJson) } }
  /\ fs \in { [p \in FsPaths |-> IF p = DefaultTokenPath THEN st ELSE Absent] :
                 st \in { Absent, File(Stringify(FileTokens)), Unreadable } }
  /\ last = NoCall
  /\ inv = Idle
  /\ hist = NoHistory

NextStandalone ==
  \/ /\ inv.pc = "idle"
     /\ \E options \in OptionsOf(TokensArgs) : CreateGmailClient(options)
  \/ \E u \in UserIds, o \in ListOptions, t \in TokensArgs :
       CallListMessages(u, o, t)
  \/ \E m \in MessageIds, t \in TokensArgs, f \in MessageFormats :
       CallGetMessage(m, t, f)
  \/ \E q \in Queries, t \in SearchTokensArgs, o \in SearchOptions :
       CallSearchMessages(q, t, o)
  \/ \E o \in StandaloneSendOptions, t \in TokensArgs : CallSendMessage(o, t)
  \/ \E o \in StandaloneDraftOptions, t \in TokensArgs : CallCreateDraft(o, t)
  \/ \E t \in TokensArgs : CallListLabels(t)
  \/ \E m \in MessageIds, o \in ModifyOptions, t \in TokensArgs :
       CallModifyMessageLabels(m, o, t)
  \/ \E m \in MessageIds, t \in TokensArgs : CallTrashMessage(m, t)
  \/ \E m \in MessageIds, t \in TokensArgs : CallUntrashMessage(m, t)
  \/ \E t \in TokensArgs, o \in ListOptions : CallListThreads(t, o)
  \/ \E i \in ThreadIds, t \in TokensArgs, f \in ThreadFormats :
       CallGetThread(i, t, f)
  \/ inv.pc = "awaiting" /\ \E r \in Responses(inv.request.api) : RemoteResolve(r)
  \/ \E r \in Rejections : RemoteReject(r)

SpecStandalone == InitStandalone /\ [][NextStandalone]_vars

----------------------------------------------------------------------------
(* Failing resolution aborts construction *)

\* no source of credentials gives a bundle: nothing is supplied, and
\* GMAIL_TOKEN is invalid, or it is unset and the token file is absent or
\* unreadable
NoCredentials(supplied) ==
  /\ supplied = Undefined
  /\ \/ env["GMAIL_TOKEN"] = JsonStr(InvalidJson)
     \/ /\ env["GMAIL_TOKEN"] = Undefined
        /\ fs[DefaultTokenPath] \in {Absent, Unreadable}

\* the error of the resolution that fails
ResolutionError ==
  IF env["GMAIL_TOKEN"] = JsonStr(InvalidJson) THEN Error(EnvInvalidMessage)
  ELSE IF fs[DefaultTokenPath] = Unreadable
  THEN Error(FileFailedMessage(DefaultTokenPath))
  ELSE Error(NoTokensMessage)

IsStandalone == inv.pc # "idle" /\ "fn" \in DOMAIN inv

\* C19: when resolution fails, createGmailClient throws the resolution error
\* and returns no client, and a standalone function is rejected with the
\* resolution error without a client having been constructed and without a
\* remote call having been issued.
C19_ResolutionAborts ==
  /\ (last.op = "createGmailClient" /\ NoCredentials(OptionsTokens(last.arg)))
       => last.outcome = Throw(ResolutionError)
  /\ (IsStandalone /\ NoCredentials(inv.tokens)) =>
       /\ inv.pc = "settled"
       /\ inv.outcome = Throw(ResolutionError)
       /\ inv.issued = 0
       /\ "client" \notin DOMAIN inv
       /\ "request" \notin DOMAIN inv

\* sendMessage without tokens while GMAIL_TOKEN holds invalid JSON
C19_Witness ==
  /\ IsStandalone /\ inv.fn = "sendMessage" /\ inv.tokens = Undefined
  /\ env["GMAIL_TOKEN"] = JsonStr(InvalidJson)
  /\ inv.pc = "settled" /\ inv.issued = 0
  /\ inv.outcome = Throw(Error(EnvInvalidMessage))

----------------------------------------------------------------------------
(* The MCP servers: the call-tool handler *)

\* a string the handler builds, as fragments
Text(frags) == [t |-> "text", frags |-> frags]

\* { content: [{ type: 'text', text }] }
ResultPayload(text) == [content |-> <<[type |-> "text", text |-> text]>>]

\* { content: [{ type: 'text', text }], isError: true }
ErrorPayload(text) ==
  [content |-> <<[type |-> "text", text |-> text]>>, isError |-> TRUE]

\* error instanceof Error ? error.message : String(error)
ErrorMessage(error) ==
  IF InstanceofError(error) THEN error.message ELSE Interpolate(error)

\* mutant of CaughtPayload: the response for a caught error has no error flag
CaughtPayload_Unflagged(error) ==
  ResultPayload(Text(<<"Error: ">> \o ErrorMessage(error)))

\* the catch block of the handler: the response for a caught error
CaughtPayload(error) == ErrorPayload(Text(<<"Error: ">> \o ErrorMessage(error)))

\* mutant of UnknownToolPayload: the default branch answers as the catch
\* block does, without the flag and without the name
UnknownToolPayload_Plain(name) == ResultPayload(Text(<<"Unknown tool">>))

\* the default branch of the switch
UnknownToolPayload(name) ==
  ErrorPayload(Text(<<"Unknown tool: ">> \o Interpolate(name)))

\* mutant of Pick: the arguments object is passed on as it is
Pick_Whole(toolArgs, keys) == toolArgs

\* the properties of toolArgs a branch reads
Pick(toolArgs, keys) ==
  Obj(keys, [k \in { keys[i] : i \in DOMAIN keys } |-> Get(toolArgs, k)])

\* the switch on the tool name: the method a branch calls, the properties of
\* toolArgs it reads for the arguments of that method, and the remote call
\* the method issues with them; or no branch
NoBranch == [known |-> FALSE]
Branch(method, read, call) ==
  [known |-> TRUE, method |-> method, read |-> read, call |-> call]

\* the options literal of a branch: the properties read, but for the
\* positional ones
Options(read, positional) ==
  Obj(SelectSeq(read.keys, LAMBDA k : k \notin positional),
      [k \in DOMAIN read.o \ positional |-> read.o[k]])

ToolCall(name, toolArgs) ==
  CASE name = Str("gmailListMessages") ->
         LET read == Pick(toolArgs, <<"q", "maxResults", "pageToken",
                                     "includeSpamTrash", "labelIds">>)
         IN Branch("listMessages", read,
                   listMessages(Str("me"), Options(read, {})))
    [] name = Str("gmailGetMessage") ->
         LET read == Pick(toolArgs, <<"messageId", "format">>)
         IN Branch("getMessage", read,
                   getMessage(Str("me"), Get(read, "messageId"),
                              Get(read, "format")))
    [] name = Str("gmailSearchMessages") ->
         LET read == Pick(toolArgs, <<"query", "maxResults", "pageToken",
                                     "labelIds">>)
         IN Branch("searchMessages", read,
                   searchMessages(Str("me"), Get(read, "query"),
                                  Options(read, {"query"})))
    [] name = Str("gmailSendMessage") ->
         LET read == Pick(toolArgs, <<"to", "subject", "body", "html",
                                     "threadId", "inReplyTo">>)
         IN Branch("sendMessage", read,
                   sendMessage(Str("me"), Options(read, {})))
    [] name = Str("gmailCreateDraft") ->
         LET read == Pick(toolArgs, <<"to", "subject", "body", "html",
                                     "threadId">>)
         IN Branch("createDraft", read,
                   createDraft(Str("me"), Options(read, {})))
    [] name = Str("gmailListLabels") ->
         Branch("listLabels", Pick(toolArgs, <<>>), listLabels(Undefined))
    [] name = Str("gmailModifyMessageLabels") ->
         LET read == Pick(toolArgs, <<"messageId", "addLabelIds",
                                     "removeLabelIds">>)
         IN Branch("modifyMessageLabels", read,
                   modifyMessageLabels(Str("me"), Get(read, "messageId"),
                                       Options(read, {"messageId"})))
    [] name = Str("gmailTrashMessage") ->
         LET read == Pick(toolArgs, <<"messageId">>)
         IN Branch("trashMessage", read,
                   trashMessage(Str("me"), Get(read, "messageId")))
    [] name = Str("gmailUntrashMessage") ->
         LET read == Pick(toolArgs, <<"messageId">>)
         IN Branch("untrashMessage", read,
                   untrashMessage(Str("me"), Get(read, "messageId")))
    [] name = Str("gmailListThreads") ->
         LET read == Pick(toolArgs, <<"q", "maxResults", "pageToken",
                                     "labelIds">>)
         IN Branch("listThreads", read,
                   listThreads(Str("me"), Options(read, {})))
    [] name = Str("gmailGetThread") ->
         LET read == Pick(toolArgs, <<"threadId", "format">>)
         IN Branch("getThread", read,
                   getThread(Str("me"), Get(read, "threadId"),
                             Get(read, "format")))
    [] OTHER -> NoBranch

\* mutant of Extracted: the tokens of the arguments are not read
Extracted_NoTokens(name, toolArgs) ==
  Return([name |-> name, toolArgs |-> toolArgs, tokens |-> Undefined])

\* what the handler has read before its try block
Extracted(name, toolArgs) ==
  Return([name |-> name, toolArgs |-> toolArgs,
          tokens |-> Or(Get(toolArgs, "tokens"), Undefined)])

\* the Zod-schema server: name and arguments are read from the request
\* itself, and tokens from the arguments as they are
ExtractZod(request) ==
  LET name == Get(request, "name")
      toolArgs == Get(request, "arguments")
  IN IF ~CanRead(request)
     THEN Throw(TypeError(<<"Cannot destructure property 'name' of 'request' as it is ",
                            request.t, ".">>))
     ELSE IF ~CanRead(toolArgs)
          THEN Throw(TypeError(ReadOfNullMessage(toolArgs, "tokens")))
          ELSE Extracted(name, toolArgs)

\* the JSON-schema server: name and arguments are read from request.params,
\* and missing arguments are replaced by {}
ExtractJson(request) ==
  LET params == Get(request, "params")
      name == Get(params, "name")
      toolArgs == Or(Get(params, "arguments"), Obj(<<>>, EmptyObj))
  IN IF ~CanRead(request)
     THEN Throw(TypeError(<<"Cannot destructure property 'params' of 'request' as it is ",
                            request.t, ".">>))
     ELSE IF ~CanRead(params)
          THEN Throw(TypeError(<<"Cannot destructure property 'name' of 'params' as it is ",
                                 params.t, ".">>))
          ELSE Extracted(name, toolArgs)

\* console.error(`Tool error: ${message}`) of the catch block
ToolErrorLine(error) == [text |-> <<"Tool error: ">> \o ErrorMessage(error)]

\* the frame of the handler when it has run up to its await, or to its end
\* when it does not await: without a client it ends in its catch block or
\* outside it, without a branch in the default branch; a method that fails
\* before its remote call has logged and rejected, and the handler awaits it
HandlerStarted(server, request, extracted, client, tool) ==
  LET call_ == [server |-> server, call |-> request]
  IN IF extracted.kind = "throw"
     THEN [pc |-> "settled", issued |-> 0, stderr |-> <<>>,
           handler |-> extracted] @@ call_
     ELSE IF client.kind = "throw"
     THEN [pc |-> "settled", issued |-> 0, tokens |-> extracted.value.tokens,
           caught |-> client.error,
           stderr |-> <<ToolErrorLine(client.error)>>,
           handler |-> Return(CaughtPayload(client.error))] @@ call_
     ELSE IF ~tool.known
     THEN [pc |-> "settled", issued |-> 0, tokens |-> extracted.value.tokens,
           client |-> client.value, stderr |-> <<>>,
           handler |-> Return(UnknownToolPayload(extracted.value.name))] @@ call_
     ELSE IF tool.call.ok
     THEN [pc |-> "awaiting", issued |-> 1, tokens |-> extracted.value.tokens,
           client |-> client.value, method |-> tool.method,
           read |-> tool.read, stderr |-> <<>>,
           request |-> [api |-> tool.call.api, params |-> tool.call.params,
                        auth |-> client.value.oauth2Client]] @@ call_
     ELSE [pc |-> "resuming", issued |-> 0, tokens |-> extracted.value.tokens,
           client |-> client.value, method |-> tool.method,
           read |-> tool.read,
           outcome |-> handleError(tool.call.error).outcome,
           stderr |-> <<handleError(tool.call.error).stderr>>] @@ call_

\* the method of the client returns after its await: its promise is
\* fulfilled, and the handler that awaits it has not yet continued
MethodResolved(frame, response) ==
  [ResolvedWith(frame, response) EXCEPT !.pc = "resuming"]

\* the method of the client catches the failure of its remote call:
\* handleError logs and throws, its promise is rejected, and the handler that
\* awaits it has not yet continued
MethodRejected(frame, reason) ==
  [RejectedWith(frame, reason) EXCEPT
     !.pc = "resuming",
     !.stderr = Append(frame.stderr, handleError(reason).stderr)]

\* the handler continues after its await: it serialises the result and
\* returns it, or its catch block logs the error and returns the error
\* response
HandlerResumed(frame) ==
  IF frame.outcome.kind = "return"
  THEN [pc |-> "settled",
        handler |-> Return(ResultPayload(JSONStringify(frame.outcome.value)))]
       @@ frame
  ELSE [pc |-> "settled",
        caught |-> frame.outcome.error,
        stderr |-> Append(frame.stderr, ToolErrorLine(frame.outcome.error)),
        handler |-> Return(CaughtPayload(frame.outcome.error))] @@ frame

\* the handler runs up to its await, or to its end when it does not await
Handle(server, request, extracted) ==
  /\ \E client \in {IF extracted.kind = "throw" THEN extracted
                    ELSE createGmailClient(Obj(<<"tokens">>,
                                               [tokens |-> extracted.value.tokens]),
                                           env, fs)} :
     \E tool \in {IF extracted.kind = "throw" THEN NoBranch
                  ELSE ToolCall(extracted.value.name, extracted.value.toolArgs)} :
       inv' = HandlerStarted(server, request, extracted, client, tool)
  /\ last' = NoCall
  /\ UNCHANGED <<env, fs, hist>>

\* a tools/call request reaches the handler of the Zod-schema server
CallToolZod(request) ==
  /\ inv.pc \in {"idle", "settled"}
  /\ Handle("zod", request, ExtractZod(request))

\* a tools/call request reaches the handler of the JSON-schema server
CallToolJson(request) ==
  /\ inv.pc \in {"idle", "settled"}
  /\ Handle("json", request, ExtractJson(request))

\* the remote call succeeds and the method of the client returns its result
ToolResolve(response) ==
  /\ inv.pc = "awaiting"
  /\ inv' = MethodResolved(inv, response)
  /\ UNCHANGED <<env, fs, last, hist>>

\* the remote call fails and the method of the client throws through
\* handleError
ToolReject(reason) ==
  /\ inv.pc = "awaiting"
  /\ inv' = MethodRejected(inv, reason)
  /\ UNCHANGED <<env, fs, last, hist>>

\* the handler continues after the await of the method
ToolResume ==
  /\ inv.pc = "resuming"
  /\ inv' = HandlerResumed(inv)
  /\ UNCHANGED <<env, fs, last, hist>>

----------------------------------------------------------------------------
(* The MCP servers: requests *)

\* a tool of the registry: its name and, of its input schema, the declared
\* properties and the required ones
Tool(name, properties, required) ==
  [name |-> name, properties |-> properties, required |-> required]

\* the tools array, in its order
tools ==
  << Tool("gmailListMessages",
          {"q", "maxResults", "pageToken", "includeSpamTrash", "labelIds", "tokens"},
          {}),
     Tool("gmailGetMessage", {"messageId", "format", "tokens"}, {"messageId"}),
     Tool("gmailSearchMessages",
          {"query", "maxResults", "pageToken", "labelIds", "tokens"}, {"query"}),
     Tool("gmailSendMessage",
          {"to", "subject", "body", "html", "threadId", "inReplyTo", "tokens"},
          {"to"}),
     Tool("gmailCreateDraft",
          {"to", "subject", "body", "html", "threadId", "tokens"}, {"to"}),
     Tool("gmailListLabels", {"tokens"}, {}),
     Tool("gmailModifyMessageLabels",
          {"messageId", "addLabelIds", "removeLabelIds", "tokens"}, {"messageId"}),
     Tool("gmailTrashMessage", {"messageId", "tokens"}, {"messageId"}),
     Tool("gmailUntrashMessage", {"messageId", "tokens"}, {"messageId"}),
     Tool("gmailListThreads",
          {"q", "maxResults", "pageToken", "labelIds", "tokens"}, {}),
     Tool("gmailGetThread", {"threadId", "format", "tokens"}, {"threadId"}) >>

\* the names of the tools array
RegisteredTools == { tools[i].name : i \in DOMAIN tools }

\* mutant of ListToolsResult: the Zod-schema server lists one tool fewer
ListToolsResult_PerServer(server) ==
  [tools |-> IF server = "zod" THEN SubSeq(tools, 1, Len(tools) - 1) ELSE tools]

\* the ListTools handler: return { tools }
ListToolsResult(server) == [tools |-> tools]

\* a tools/list request reaches the handler of a server; a tool call that is
\* awaiting its remote response stays as it is
ListTools(server) ==
  /\ last' = [op |-> "tools/list", server |-> server,
              outcome |-> Return(ListToolsResult(server))]
  /\ UNCHANGED <<env, fs, inv, hist>>

\* names that no branch handles
UnknownTools == { "gmailArchiveMessage", "gmailUnarchiveMessage", "unknownTool" }

\* the bundle a tool call embeds, with the names of the tokens schema
ToolTokens ==
  Obj(<<"accessToken", "refreshToken">>,
      [accessToken |-> Str("tool-access"), refreshToken |-> Str("tool-refresh")])

\* arguments of a tool call, without tokens
ToolArguments(name) ==
  CASE name = "gmailListMessages" ->
         { Obj(<<>>, EmptyObj), Obj(<<"q", "maxResults">>,
                                    [q |-> Str("is:unread"), maxResults |-> Num(10)]) }
    [] name = "gmailGetMessage" ->
         { Obj(<<"messageId">>, [messageId |-> Str("msg1")]),
           Obj(<<"messageId", "format">>,
               [messageId |-> Str("msg1"), format |-> Str("raw")]) }
    [] name = "gmailSearchMessages" ->
         { Obj(<<"query", "maxResults">>,
               [query |-> Str("from:test@example.com"), maxResults |-> Num(5)]),
           Obj(<<"query", "includeSpamTrash">>,
               [query |-> Str("is:unread"), includeSpamTrash |-> Bool(TRUE)]) }
    [] name = "gmailSendMessage" ->
         { Obj(<<"to", "subject", "body">>,
               [to |-> Str("test@example.com"), subject |-> Str("Test"),
            body |-> Str("Hello")]),
           Obj(<<"to", "html", "inReplyTo">>,
               [to |-> Arr(<<Str("a@example.com"), Str("b@example.com")>>),
            html |-> Bool(TRUE), inReplyTo |-> Str("<id-1@mail>")]),
           Obj(<<"to", "subject", "labelIds">>,
               [to |-> Str("test@example.com"), subject |-> Str("Test"),
            labelIds |-> Arr(<<Str("IMPORTANT")>>)]) }
    [] name = "gmailCreateDraft" ->
         { Obj(<<"to", "subject", "body">>,
               [to |-> Str("test@example.com"), subject |-> Str("Draft"),
            body |-> Str("Hello")]) }
    [] name = "gmailModifyMessageLabels" ->
         { Obj(<<"messageId", "addLabelIds">>,
               [messageId |-> Str("msg1"), addLabelIds |-> Arr(<<Str("STARRED")>>)]) }
    [] name \in {"gmailTrashMessage", "gmailUntrashMessage"} ->
         { Obj(<<"messageId">>, [messageId |-> Str("msg1")]) }
    [] name = "gmailListThreads" ->
         { Obj(<<>>, EmptyObj), Obj(<<"q", "pageToken">>,
                                    [q |-> Str("is:unread"), pageToken |-> Str("page-2")]),
           Obj(<<"q", "includeSpamTrash">>,
               [q |-> Str("is:unread"), includeSpamTrash |-> Bool(TRUE)]) }
    [] name = "gmailGetThread" ->
         { Obj(<<"threadId">>, [threadId |-> Str("thread1")]),
           Obj(<<"threadId", "format">>,
               [threadId |-> Str("thread1"), format |-> Str("minimal")]) }
    [] OTHER -> { Obj(<<>>, EmptyObj) }

\* the arguments with a tokens bundle added
WithTokens(a) ==
  Obj(Append(a.keys, "tokens"),
      [k \in DOMAIN a.o \cup {"tokens"} |->
         IF k = "tokens" THEN ToolTokens ELSE a.o[k]])

\* params.arguments, when supplied: an object with or without tokens
ArgumentsOf(name) ==
  ToolArguments(name) \cup { WithTokens(a) : a \in ToolArguments(name) }

\* a tools/call request without arguments, and one with arguments
RequestWithout(name) ==
  Obj(<<"method", "params">>,
      [method |-> Str("tools/call"), params |-> Obj(<<"name">>,
                                                    [name |-> Str(name)])])

RequestWith(name, arguments) ==
  Obj(<<"method", "params">>, [method |-> Str("tools/call"),
       params |-> Obj(<<"name", "arguments">>,
                      [name |-> Str(name), arguments |-> arguments])])

\* the requests the protocol layer hands to the handler
BareRequests == { RequestWithout(n) : n \in RegisteredTools \cup UnknownTools }
ArgumentRequests ==
  { RequestWith(p[1], p[2]) :
      p \in { q \in (RegisteredTools \cup UnknownTools)
                      \X UNION { ArgumentsOf(m) :
                                   m \in RegisteredTools \cup UnknownTools } :
                q[2] \in ArgumentsOf(q[1]) } }
CallToolRequests == BareRequests \cup ArgumentRequests

\* GMAIL_TOKEN unset, a bundle or invalid; the token file absent or a bundle
InitServer ==
  /\ env \in { [CleanEnv EXCEPT !["GMAIL_TOKEN"] = v] :
                 v \in { Undefined, JsonStr(Stringify(EnvTokens)),
                         JsonStr(InvalidJson) } }
  /\ fs \in { [p \in FsPaths |-> IF p = DefaultTokenPath THEN st ELSE Absent] :
                 st \in { Absent, File(Stringify(FileTokens)) } }
  /\ last = NoCall
  /\ inv = Idle
  /\ hist = NoHistory

NextServer ==
  \/ \E request \in CallToolRequests : CallToolZod(request)
  \/ \E request \in CallToolRequests : CallToolJson(request)
  \/ inv.pc = "awaiting" /\ \E r \in Responses(inv.request.api) : ToolResolve(r)
  \/ \E r \in Rejections : ToolReject(r)
  \/ ToolResume
  \/ \E server \in {"zod", "json"} : ListTools(server)

SpecServer == InitServer /\ [][NextServer]_vars

----------------------------------------------------------------------------
(* The MCP servers: what a tool call ends with *)

\* the handler has finished with a request
Handled == inv.pc = "settled" /\ "server" \in DOMAIN inv

\* the handler has finished by returning a response
Responded == Handled /\ inv.handler.kind = "return"

\* the request, as the protocol layer delivered it
ToolName == inv.call.o["params"].o["name"]
SuppliedArguments == "arguments" \in DOMAIN inv.call.o["params"].o
EmbeddedTokens ==
  IF SuppliedArguments
       /\ "tokens" \in DOMAIN inv.call.o["params"].o["arguments"].o
  THEN inv.call.o["params"].o["arguments"].o["tokens"]
  ELSE Undefined

\* C11 as stated: for every request the handler ends by returning exactly one
\* response, never by throwing, and the response carries the error flag when
\* the credentials could not be resolved or the remote call failed.
C11_NeverThrows ==
  Handled =>
    /\ inv.handler.kind = "return"
    /\ Len(inv.handler.value.content) = 1
    /\ ("caught" \in DOMAIN inv) => inv.handler.value.isError = TRUE

\* the remote call of the invocation was answered
Succeeded == "remote" \in DOMAIN inv /\ inv.remote.kind = "resolve"

\* the remote call of the invocation failed
RemoteFailed == "remote" \in DOMAIN inv /\ inv.remote.kind = "reject"

\* the message of the failure: of the resolution error, or of the error the
\* facade throws for the reason of the remote failure
FailureMessage ==
  IF RemoteFailed
  THEN (IF inv.remote.reason.t = "error" THEN inv.remote.reason.message
        ELSE <<"Unknown Gmail API error">>)
  ELSE ResolutionError.message

\* C12: a response has a single text item.  When the facade call of a
\* registered tool succeeds the text is the JSON serialisation of the result
\* of the method and the response has no error flag; when the credentials
\* cannot be resolved or the remote call fails the text is 'Error: ' followed
\* by the message of the failure and isError is true.  A response has the
\* error flag if and only if the invocation did not succeed.
C12_ResponsePayload ==
  Responded =>
    LET payload == inv.handler.value
        text == payload.content[1].text
    IN /\ Len(payload.content) = 1
       /\ payload.content[1].type = "text"
       /\ Succeeded =>
            /\ ToolName.s \in RegisteredTools
            /\ "isError" \notin DOMAIN payload
            /\ text.t = "json"
            /\ JSONParse(text.text) = [ok |-> TRUE, v |-> inv.outcome.value]
       /\ (RemoteFailed \/ NoCredentials(EmbeddedTokens)) =>
            payload = [content |-> <<[type |-> "text",
                                      text |-> Text(<<"Error: ">> \o FailureMessage)]>>,
                       isError |-> TRUE]
       /\ ("isError" \in DOMAIN payload /\ payload.isError) <=> ~Succeeded

\* gmailListThreads answered with two threads, returned as JSON text
C12_Witness ==
  /\ Responded /\ Succeeded /\ ToolName = Str("gmailListThreads")
  /\ inv.outcome.value.t = "arr" /\ Len(inv.outcome.value.a) = 2
  /\ inv.handler.value.content[1].text = JSONStringify(inv.outcome.value)
  /\ "isError" \notin DOMAIN inv.handler.value

\* the credentials of the client the handler made
ToolCredentials == inv.client.oauth2Client.credentials

\* C13: a tool invocation that embeds a tokens bundle uses that bundle,
\* whatever GMAIL_TOKEN and the token file hold; one that embeds none uses the
\* bundle of GMAIL_TOKEN, else that of the token file, and with no source it
\* ends in an error-flagged response carrying the resolution error.
C13_ToolCredentialPriority ==
  (("server" \in DOMAIN inv) /\ inv.server = "json") =>
    /\ EmbeddedTokens # Undefined =>
         /\ "client" \in DOMAIN inv
         /\ ToolCredentials.o["access_token"] = EmbeddedTokens.o["accessToken"]
         /\ ToolCredentials.o["refresh_token"] = EmbeddedTokens.o["refreshToken"]
    /\ (EmbeddedTokens = Undefined
          /\ env["GMAIL_TOKEN"] = JsonStr(Stringify(EnvTokens))) =>
         /\ "client" \in DOMAIN inv
         /\ ToolCredentials.o["access_token"] = Str("env-token")
    /\ (EmbeddedTokens = Undefined /\ env["GMAIL_TOKEN"] = Undefined
          /\ fs[DefaultTokenPath] = File(Stringify(FileTokens))) =>
         /\ "client" \in DOMAIN inv
         /\ ToolCredentials.o["access_token"] = Str("file-token")
    /\ NoCredentials(EmbeddedTokens) =>
         /\ "client" \notin DOMAIN inv
         /\ inv.issued = 0
         /\ inv.handler =
              Return([content |-> <<[type |-> "text",
                                     text |-> Text(<<"Error: ">>
                                                     \o ResolutionError.message)]>>,
                      isError |-> TRUE])
    /\ inv.pc = "awaiting" => inv.request.auth.credentials = ToolCredentials

\* a call that embeds tokens while GMAIL_TOKEN holds another bundle and the
\* token file a third one
C13_Witness ==
  /\ "server" \in DOMAIN inv /\ inv.server = "json" /\ inv.pc = "awaiting"
  /\ EmbeddedTokens = ToolTokens
  /\ env["GMAIL_TOKEN"] = JsonStr(Stringify(EnvTokens))
  /\ fs[DefaultTokenPath] = File(Stringify(FileTokens))
  /\ inv.request.auth.credentials.o["access_token"] = Str("tool-access")

----------------------------------------------------------------------------
(* Credential resolution: GMAIL_TOKEN set to the empty string *)

EmptyGmailToken == env["GMAIL_TOKEN"] = JsonStr(<<>>)

\* C29: with no bundle supplied, GMAIL_TOKEN = '' is treated as if the
\* variable were unset: the call never fails with the invalid-JSON message,
\* it returns the parsed token file when that file is valid, fails with the
\* no-source message when the file does not exist, and in every case ends as
\* the same call would with GMAIL_TOKEN unset.
C29_EmptyEnvIsAbsent ==
  (IsResolve /\ ~Supplied /\ EmptyGmailToken) =>
     /\ ~Threw(EnvInvalidMessage)
     /\ FileValid => last.outcome = Return(FileParsed.v)
     /\ NamedFile.kind = "absent" => Threw(NoTokensMessage)
     /\ last.outcome =
          resolveTokens(Undefined, [env EXCEPT !["GMAIL_TOKEN"] = Undefined], fs)

\* GMAIL_TOKEN is '' and the token file holds a bundle: the file is used
C29_Witness ==
  /\ IsResolve /\ ~Supplied /\ EmptyGmailToken
  /\ NamedFile = File(Stringify(FileTokens))
  /\ last.outcome = Return(FileTokens)

----------------------------------------------------------------------------
(* The facade: subject, body and layout of the envelope *)

\* a mail method was called with an options record
MailCalled ==
  /\ inv.pc \in {"awaiting", "settled"}
  /\ inv.method \in {"sendMessage", "createDraft"}
  /\ inv.args[2].t = "obj"

\* the text of an optional string field: none when the field is left out or
\* empty
FieldText(name) ==
  IF name \in DOMAIN MailOptions.o /\ MailOptions.o[name].t = "str"
       /\ MailOptions.o[name].s # ""
  THEN <<MailOptions.o[name].s>>
  ELSE <<>>

RECURSIVE AfterBlankLine(_)
\* what follows the first empty line of an envelope
AfterBlankLine(frags) ==
  IF frags = <<>> THEN <<>>
  ELSE IF Head(frags) = "\r\n\r\n" THEN Tail(frags)
  ELSE AfterBlankLine(Tail(frags))

\* the envelope has an empty line
HasBlankLine == \E i \in DOMAIN Envelope : Envelope[i] = "\r\n\r\n"

\* C30: sendMessage and createDraft do not fail when subject or body is left
\* out: the remote call is issued.  The envelope has the headers To, Subject,
\* Content-Type and MIME-Version in that order, then In-Reply-To and
\* References when an identifier is supplied, then an empty line and the
\* body.  Without a subject the Subject header reads '(no subject)', and
\* without a body nothing follows the empty line.
C30_EnvelopeLayout ==
  MailCalled =>
    /\ inv.issued = 1
    /\ Len(HeaderLines) = (IF ReplyId # <<>> THEN 6 ELSE 4)
    /\ HeaderLines[1][1] = "To: "
    /\ HeaderLines[2] = <<"Subject: ">>
                          \o (IF FieldText("subject") = <<>>
                              THEN <<"(no subject)">> ELSE FieldText("subject"))
    /\ HeaderLines[3][1] = "Content-Type: "
    /\ HeaderLines[4] = <<"MIME-Version: 1.0">>
    /\ ReplyId # <<>> => /\ HeaderLines[5][1] = "In-Reply-To: "
                         /\ HeaderLines[6][1] = "References: "
    /\ HasBlankLine
    /\ AfterBlankLine(Envelope) = FieldText("body")

\* createDraft with a recipient only: placeholder subject and empty body
C30_Witness ==
  /\ MailCalled /\ inv.method = "createDraft"
  /\ DOMAIN MailOptions.o = {"to"}
  /\ Envelope = <<"To: ", "a@example.com", "\r\n", "Subject: ", "(no subject)",
                  "\r\n", "Content-Type: ", "text/plain", "; charset=\"UTF-8\"",
                  "\r\n", "MIME-Version: 1.0", "\r\n\r\n">>

----------------------------------------------------------------------------
(* The facade: searchMessages against listMessages *)

IsSearch ==
  inv.pc \in {"awaiting", "settled"} /\ inv.method = "searchMessages"

\* the options of a search with q set to its query
SearchAsListOptions ==
  LET query == inv.args[2]
      options == inv.args[3]
      given == IF options.t = "obj" THEN DOMAIN options.o ELSE {}
      keys == IF options.t = "obj" THEN options.keys ELSE <<>>
  IN Obj(IF "q" \in given THEN keys ELSE Append(keys, "q"),
         [k \in given \cup {"q"} |-> IF k = "q" THEN query ELSE options.o[k]])

\* C26: searchMessages(userId, query, options) issues the remote list request
\* that listMessages(userId, options with q set to query) issues, and returns
\* from the response what listMessages returns from it; q of the request is
\* the query, also when the options hold a q of their own.
C26_SearchIsList ==
  IsSearch =>
    LET asList == listMessages(inv.args[1], SearchAsListOptions)
    IN /\ inv.issued = 1
       /\ asList.ok
       /\ inv.request.api = asList.api
       /\ inv.request.params = asList.params
       /\ inv.request.params.o["q"] = inv.args[2]
       /\ Resolved =>
            inv.outcome = MethodResult("listMessages", inv.remote.response)

\* a search whose options hold another q, answered without a messages field
C26_Witness ==
  /\ IsSearch /\ Resolved
  /\ inv.args[2] = Str("from:test@example.com")
  /\ inv.args[3] = Obj(<<"q", "maxResults">>,
                       [q |-> Str("is:starred"), maxResults |-> Num(5)])
  /\ inv.request.params.o["q"] = Str("from:test@example.com")
  /\ inv.request.params.o["maxResults"] = Num(5)
  /\ inv.outcome = Return(Arr(<<>>))

----------------------------------------------------------------------------
(* The standalone searchMessages, called as the README calls it *)

\* searchMessages('is:unread', { maxResults: 5 }): the record is the second
\* argument and there is no third
ReadmeSearch ==
  /\ IsStandalone /\ inv.fn = "searchMessages"
  /\ inv.args[1] = Str("is:unread")
  /\ inv.tokens = ReadmeSearchArgument
  /\ inv.args[2] = Undefined

\* C25 as stated: the call shown in the README resolves its credentials
\* from the environment or the token file, and the remote list request it
\* issues carries maxResults 5 and authenticates with those credentials.
C25_ReadmeSearchForwardsOptions ==
  ReadmeSearch =>
    /\ inv.resolution = resolveTokens(Undefined, env, fs)
    /\ inv.issued = 1 =>
         /\ inv.request.params.o["maxResults"] = Num(5)
         /\ inv.resolution.kind = "return"
         /\ inv.request.auth.credentials = NormalizedTokens(inv.resolution.value)

----------------------------------------------------------------------------
(* Standalone functions called one after the other while GMAIL_TOKEN changes *)

\* a second bundle for GMAIL_TOKEN
RotatedEnvTokens ==
  Obj(<<"access_token", "refreshToken">>,
      [access_token |-> Str("rotated-token"), refreshToken |-> Str("env-refresh")])

SuccessiveTokenValues ==
  { Undefined, JsonStr(Stringify(EnvTokens)), JsonStr(Stringify(RotatedEnvTokens)) }

\* the token file holds a bundle throughout
InitSuccessive ==
  /\ env = CleanEnv
  /\ fs = [p \in FsPaths |->
             IF p = DefaultTokenPath THEN File(Stringify(FileTokens)) ELSE Absent]
  /\ last = NoCall
  /\ inv = Idle
  /\ hist = EmptyHistory

NextSuccessive ==
  \/ /\ inv.pc # "awaiting"
     /\ \E value \in SuccessiveTokenValues : SetEnv("GMAIL_TOKEN", value)
  \/ /\ Len(hist.calls) < MaxCalls
     /\ \E t \in TokensArgs : CallListLabels(t)
  \/ /\ Len(hist.calls) < MaxCalls
     /\ \E m \in MessageIds, t \in TokensArgs : CallTrashMessage(m, t)
  \/ inv.pc = "awaiting" /\ \E r \in Responses(inv.request.api) : RemoteResolve(r)

SpecSuccessive == InitSuccessive /\ [][NextSuccessive]_vars

\* the access token a call without tokens argument has to use: the one of
\* GMAIL_TOKEN at the time of the call, else the one of the token file
OwnAccessToken(c) ==
  IF c.arg # Undefined THEN Str("test-access-token")
  ELSE IF c.env["GMAIL_TOKEN"] = JsonStr(Stringify(EnvTokens)) THEN Str("env-token")
  ELSE IF c.env["GMAIL_TOKEN"] = JsonStr(Stringify(RotatedEnvTokens))
  THEN Str("rotated-token")
  ELSE Str("file-token")

\* C22: every call of a standalone function resolves the credentials from
\* its own tokens argument, else from GMAIL_TOKEN and the token file as they
\* are when it is called, and constructs its own client from that bundle:
\* the credentials of the client are those of this resolution, never those
\* of an earlier call, so the second of two calls uses the GMAIL_TOKEN that
\* was set between them.
C22_FreshClientPerCall ==
  \A i \in DOMAIN hist.calls :
    LET c == hist.calls[i]
    IN /\ ReflectsInputs(c)
       /\ c.outcome.kind = "return"
       /\ c.client.kind = "return"
       /\ c.client.value.oauth2Client.credentials = NormalizedTokens(c.outcome.value)
       /\ c.client.value.oauth2Client.credentials.o["access_token"]
            = OwnAccessToken(c)

\* two calls without tokens; GMAIL_TOKEN was replaced between them and the
\* second call authenticates with the new bundle
C22_Witness ==
  /\ Len(hist.calls) = 2
  /\ hist.calls[1].arg = Undefined /\ hist.calls[2].arg = Undefined
  /\ hist.calls[1].env["GMAIL_TOKEN"] = JsonStr(Stringify(EnvTokens))
  /\ hist.calls[2].env["GMAIL_TOKEN"] = JsonStr(Stringify(RotatedEnvTokens))
  /\ hist.calls[1].client.value.oauth2Client.credentials.o["access_token"]
       = Str("env-token")
  /\ inv.pc = "awaiting"
  /\ inv.request.auth.credentials.o["access_token"] = Str("rotated-token")

----------------------------------------------------------------------------
(* The MCP servers: the registry *)

\* the public methods of GmailClient, and the functions the library exports
\* beside createGmailClient and resolveTokens
GmailClientMethods ==
  { "listMessages", "getMessage", "searchMessages", "sendMessage",
    "createDraft", "listLabels", "modifyMessageLabels", "trashMessage",
    "untrashMessage", "listThreads", "getThread" }

ExportedFunctions ==
  { "listMessages", "getMessage", "searchMessages", "sendMessage",
    "createDraft", "listLabels", "modifyMessageLabels", "trashMessage",
    "untrashMessage", "listThreads", "getThread" }

\* a tools/list request was answered
Listed == last.op = "tools/list"
ListedNames ==
  { last.outcome.value.tools[i].name : i \in DOMAIN last.outcome.value.tools }

\* the handler made its client and reached the switch on the tool name
Dispatched == Handled /\ "client" \in DOMAIN inv

\* a branch of the switch called a method of the client
BranchTaken == "method" \in DOMAIN inv

\* C23: the registry is a fixed list of eleven tools with distinct names
\* (list, get and search messages, send message, create draft, list labels,
\* modify, trash and untrash message, list and get threads).  Every
\* tools/list response, of either server and in whatever state, is that list;
\* and a tool name is handled by a branch of the dispatch switch if and only
\* if it is a name of that list.
C23_FixedRegistry ==
  /\ Len(tools) = 11
  /\ RegisteredTools =
       { "gmailListMessages", "gmailGetMessage", "gmailSearchMessages",
         "gmailSendMessage", "gmailCreateDraft", "gmailListLabels",
         "gmailModifyMessageLabels", "gmailTrashMessage",
         "gmailUntrashMessage", "gmailListThreads", "gmailGetThread" }
  /\ Cardinality(RegisteredTools) = 11
  /\ Listed => last.outcome = Return([tools |-> tools])
  /\ Dispatched => (BranchTaken <=> ToolName.s \in RegisteredTools)
  /\ \A n \in RegisteredTools \cup UnknownTools :
       ToolCall(Str(n), Obj(<<>>, EmptyObj)).known <=> n \in RegisteredTools

\* the Zod-schema server listed its tools while a gmailGetThread call of the
\* JSON-schema server was awaiting its response, which then arrived
C23_Witness ==
  /\ Listed /\ last.server = "zod" /\ Len(last.outcome.value.tools) = 11
  /\ Dispatched /\ BranchTaken /\ Succeeded
  /\ ToolName = Str("gmailGetThread")

\* C24 as stated: gmailArchiveMessage and gmailUnarchiveMessage are tools of
\* the server, listed by tools/list and handled by a branch of the dispatch
\* switch, and archiveMessage and unarchiveMessage are methods of the client
\* and functions of the library.
C24_ArchiveExposed ==
  /\ Dispatched =>
       /\ {"archiveMessage", "unarchiveMessage"} \subseteq GmailClientMethods
       /\ {"archiveMessage", "unarchiveMessage"} \subseteq ExportedFunctions
  /\ Listed =>
       {"gmailArchiveMessage", "gmailUnarchiveMessage"} \subseteq ListedNames
  /\ (Dispatched
        /\ ToolName \in {Str("gmailArchiveMessage"), Str("gmailUnarchiveMessage")})
       => (BranchTaken /\ inv.handler # Return(UnknownToolPayload(ToolName)))

\* the handler answered a call whose name is not a name of the registry
UnknownCalled == Responded /\ ToolName.s \notin RegisteredTools

\* the response 'Unknown tool: <name>' with the error flag
UnknownToolResponse ==
  [content |-> <<[type |-> "text",
                  text |-> Text(<<"Unknown tool: ", ToolName.s>>)]>>,
   isError |-> TRUE]

\* C27 as stated: a call of an unregistered name is answered with the
\* error-flagged text 'Unknown tool: <name>' and issues no remote call, in
\* every credential configuration.
C27_UnknownToolAlways ==
  UnknownCalled =>
    /\ inv.handler.value = UnknownToolResponse
    /\ inv.issued = 0

\* C27: a call of an unregistered name issues no remote call and is answered
\* with an error-flagged single text.  The client is made before the name is
\* looked at: when the credentials resolve (from the tokens of the call, from
\* GMAIL_TOKEN or from the token file) the text is 'Unknown tool: <name>';
\* when they do not the text is 'Error: ' followed by the message of the
\* resolution error.
C27_UnknownTool ==
  UnknownCalled =>
    /\ inv.issued = 0
    /\ "request" \notin DOMAIN inv
    /\ ~BranchTaken
    /\ inv.handler.value =
         IF NoCredentials(EmbeddedTokens)
         THEN ErrorPayload(Text(<<"Error: ">> \o ResolutionError.message))
         ELSE UnknownToolResponse

\* unknownTool called with embedded tokens while GMAIL_TOKEN holds invalid
\* JSON: the answer names the tool
C27_Witness ==
  /\ UnknownCalled /\ ToolName = Str("unknownTool")
  /\ EmbeddedTokens = ToolTokens
  /\ env["GMAIL_TOKEN"] = JsonStr(InvalidJson)
  /\ inv.handler.value = UnknownToolResponse
  /\ inv.issued = 0

----------------------------------------------------------------------------
(* The MCP servers: the arguments a branch forwards *)

\* the entry of the tools array with this name
ToolOf(name) == CHOOSE t \in { tools[i] : i \in DOMAIN tools } : t.name = name

\* the properties the input schema of the called tool declares, but for tokens
Declared == ToolOf(ToolName.s).properties \ {"tokens"}

\* the arguments of the request, {} when it has none
SentArguments ==
  IF SuppliedArguments THEN inv.call.o["params"].o["arguments"] ELSE Obj(<<>>, EmptyObj)

\* the arguments without the properties the tool does not declare
DeclaredArguments ==
  Obj(SelectSeq(SentArguments.keys, LAMBDA k : k \in Declared),
      [k \in DOMAIN SentArguments.o \cap Declared |-> SentArguments.o[k]])

\* the properties of the arguments that the tool does not declare
Undeclared == DOMAIN SentArguments.o \ (Declared \cup {"tokens"})

\* C28: the branch of a registered tool reads, for the arguments of the
\* method it calls, exactly the properties that the input schema of the tool
\* declares other than tokens, each with the value the request gives it.  The
\* remote call is issued for mailbox 'me', and it is the call the same request
\* gives without its undeclared properties: these are ignored, and the call
\* is issued with them as it is without them.
C28_ForwardsDeclared ==
  (Dispatched /\ BranchTaken) =>
    /\ DOMAIN inv.read.o = Declared
    /\ \A k \in Declared : inv.read.o[k] = Get(SentArguments, k)
    /\ ("request" \in DOMAIN inv) <=> ToolCall(ToolName, DeclaredArguments).call.ok
    /\ ("request" \in DOMAIN inv) =>
         /\ inv.request.params.o["userId"] = Str("me")
         /\ inv.request.params = ToolCall(ToolName, DeclaredArguments).call.params

\* gmailSendMessage called with labelIds, which its schema does not declare:
\* the message was sent without labels and the call succeeded
C28_Witness ==
  /\ Dispatched /\ BranchTaken /\ Succeeded
  /\ ToolName = Str("gmailSendMessage")
  /\ Undeclared = {"labelIds"}
  /\ "labelIds" \notin DOMAIN inv.read.o
  /\ inv.request.params.o["requestBody"].o["labelIds"] = Undefined
  /\ "isError" \notin DOMAIN inv.handler.value

----------------------------------------------------------------------------
(* The facade: invocations in progress at the same time *)

\* two clients with different credentials
ConcurrentClients ==
  { GmailClient(MockTokens, CleanEnv).value, GmailClient(FileTokens, CleanEnv).value }

\* the calls made: of a list method, of two methods that return a record, and
\* of a method that fails before its remote call
ConcurrentCalls ==
  { [method |-> "listLabels", args |-> <<Undefined>>,
     call |-> listLabels(Undefined)],
    [method |-> "getMessage", args |-> <<Str("me"), Str("msg1"), Undefined>>,
     call |-> getMessage(Str("me"), Str("msg1"), Undefined)],
    [method |-> "trashMessage", args |-> <<Str("me"), Str("msg1")>>,
     call |-> trashMessage(Str("me"), Str("msg1"))],
    [method |-> "sendMessage", args |-> <<Str("me"), Undefined>>,
     call |-> sendMessage(Str("me"), Undefined)] }

\* the answers of the remote service: to a list call a page without its
\* collection or with one record, to another call a record
ConcurrentData ==
  { Obj(<<>>, EmptyObj),
    Obj(<<"labels">>,
        [labels |-> Arr(<<Obj(<<"id", "name">>,
                              [id |-> Str("INBOX"), name |-> Str("INBOX")])>>)]),
    Obj(<<"id", "threadId">>,
        [id |-> Str("msg1"), threadId |-> Str("thread1")]),
    Obj(<<"id", "threadId">>,
        [id |-> Str("msg2"), threadId |-> Str("thread2")]) }

ConcurrentResponses ==
  { Obj(<<"data", "status">>,
        [data |-> d, status |-> Num(200)]) : d \in ConcurrentData }

ConcurrentRejections == { Error(<<"API Error">>), Str("string error") }

\* the answers the service gives to a call of this API
AnswersTo(api) ==
  { r \in ConcurrentResponses :
      IF api \in ListApis
      THEN DOMAIN r.o["data"].o \subseteq {"labels"}
      ELSE "id" \in DOMAIN r.o["data"].o }

\* a method of a client is called while other invocations are in progress
ConcurrentInvoke(client, k) ==
  /\ inv.pc = "concurrent"
  /\ Len(inv.frames) < MaxCalls
  /\ inv' = [inv EXCEPT !.frames =
               Append(@, Started(client, k.method, k.args, k.call))]
  /\ UNCHANGED <<env, fs, last, hist>>

\* the remote call of one of the invocations succeeds
ConcurrentResolve(i, response) ==
  /\ inv.pc = "concurrent"
  /\ i \in DOMAIN inv.frames
  /\ inv.frames[i].pc = "awaiting"
  /\ response \in AnswersTo(inv.frames[i].request.api)
  /\ inv' = [inv EXCEPT !.frames =
               [j \in DOMAIN inv.frames |->
                  IF j = i THEN ResolvedWith(inv.frames[j], response)
                  ELSE inv.frames[j]]]
  /\ UNCHANGED <<env, fs, last, hist>>

\* the remote call of one of the invocations fails
ConcurrentReject(i, reason) ==
  /\ inv.pc = "concurrent"
  /\ i \in DOMAIN inv.frames
  /\ inv.frames[i].pc = "awaiting"
  /\ inv' = [inv EXCEPT !.frames =
               [j \in DOMAIN inv.frames |->
                  IF j = i THEN RejectedWith(inv.frames[j], reason)
                  ELSE inv.frames[j]]]
  /\ UNCHANGED <<env, fs, last, hist>>

InitConcurrent ==
  /\ env = CleanEnv
  /\ fs = [p \in FsPaths |-> Absent]
  /\ last = NoCall
  /\ inv = [pc |-> "concurrent", frames |-> <<>>]
  /\ hist = NoHistory

NextConcurrent ==
  \/ \E client \in ConcurrentClients, k \in ConcurrentCalls :
       ConcurrentInvoke(client, k)
  \/ \E i \in 1..MaxCalls, r \in ConcurrentResponses : ConcurrentResolve(i, r)
  \/ \E i \in 1..MaxCalls, r \in ConcurrentRejections : ConcurrentReject(i, r)

SpecConcurrent == InitConcurrent /\ [][NextConcurrent]_vars

\* the frame is what its own call, client and remote answer make it
OwnFrame(f) ==
  \E k \in ConcurrentCalls :
    /\ f.method = k.method /\ f.args = k.args
    /\ IF "request" \in DOMAIN f
       THEN /\ k.call.ok
            /\ f.issued = 1
            /\ \E client \in ConcurrentClients :
                 f.request = [api |-> k.call.api, params |-> k.call.params,
                              auth |-> client.oauth2Client]
            /\ f.pc = "settled" =>
                 f.outcome = IF f.remote.kind = "resolve"
                             THEN MethodResult(k.method, f.remote.response)
                             ELSE handleError(f.remote.reason).outcome
       ELSE /\ ~k.call.ok
            /\ f.pc = "settled" /\ f.issued = 0
            /\ f.outcome = handleError(k.call.error).outcome

\* a step settles one frame that was awaiting, or starts one, and leaves
\* every other frame as it is
OneFrameChanges ==
  \A i \in DOMAIN inv.frames :
    \/ inv'.frames[i] = inv.frames[i]
    \/ /\ inv.frames[i].pc = "awaiting"
       /\ inv'.frames[i].pc = "settled"
       /\ \A j \in DOMAIN inv.frames \ {i} : inv'.frames[j] = inv.frames[j]

\* C21: with invocations of methods in progress at the same time, on one
\* client or on two, started and answered in any order, every invocation has
\* the remote call of its own method, arguments and client, and ends with the
\* result of its own response or the error of its own failure.  A step that
\* settles or fails one invocation changes no other, and a settled invocation
\* never changes.
C21_Independent == []((\A i \in DOMAIN inv.frames : OwnFrame(inv.frames[i])))
                   /\ [][OneFrameChanges]_vars

\* two invocations on the same client: the first, getMessage, failed; the
\* second, listLabels, returned the label of its response
C21_Witness ==
  /\ inv.pc = "concurrent" /\ Len(inv.frames) = 2
  /\ inv.frames[1].method = "getMessage"
  /\ inv.frames[1].pc = "settled"
  /\ inv.frames[1].outcome = Throw(Error(<<"API Error">>))
  /\ inv.frames[2].method = "listLabels"
  /\ inv.frames[2].pc = "settled"
  /\ inv.frames[2].request.auth = inv.frames[1].request.auth
  /\ inv.frames[2].outcome =
       Return(Arr(<<Obj(<<"id", "name">>,
                        [id |-> Str("INBOX"), name |-> Str("INBOX")])>>))

----------------------------------------------------------------------------
(* The MCP servers: requests in progress at the same time *)

\* the requests served: two registered tools, with and without tokens, and
\* a name without a branch
ServedRequests ==
  { RequestWithout("gmailListLabels"),
    RequestWith("gmailGetMessage", Obj(<<"messageId">>,
                                       [messageId |-> Str("msg1")])),
    RequestWith("gmailGetMessage", WithTokens(Obj(<<"messageId">>,
                                                  [messageId |-> Str("msg1")]))),
    RequestWithout("unknownTool") }

\* the lines a step of a frame has written to stderr
Written(before, after) ==
  SubSeq(after.stderr, Len(before.stderr) + 1, Len(after.stderr))

\* the frames with frame i replaced, and the log with the lines the step of
\* frame i has written
Stepped(i, after) ==
  [inv EXCEPT
     !.frames = [j \in DOMAIN inv.frames |->
                   IF j = i THEN after ELSE inv.frames[j]],
     !.log = @ \o [n \in DOMAIN Written(inv.frames[i], after) |->
                     [frame |-> i, line |-> Written(inv.frames[i], after)[n]]]]

\* a tools/call request reaches the handler of the JSON-schema server while
\* the handlers of other requests await
Serve(request) ==
  /\ inv.pc = "serving"
  /\ Len(inv.frames) < MaxCalls
  /\ \E client \in {createGmailClient(
                      Obj(<<"tokens">>,
                          [tokens |-> ExtractJson(request).value.tokens]),
                      env, fs)} :
     \E tool \in {ToolCall(ExtractJson(request).value.name,
                           ExtractJson(request).value.toolArgs)} :
     \E frame \in {HandlerStarted("json", request, ExtractJson(request),
                                  client, tool)} :
       inv' = [inv EXCEPT
                 !.frames = Append(@, frame),
                 !.log = @ \o [n \in DOMAIN frame.stderr |->
                                 [frame |-> Len(inv.frames) + 1,
                                  line |-> frame.stderr[n]]]]
  /\ UNCHANGED <<env, fs, last, hist>>

\* the remote call of one of the handlers succeeds
ServeResolve(i, response) ==
  /\ inv.pc = "serving"
  /\ i \in DOMAIN inv.frames
  /\ inv.frames[i].pc = "awaiting"
  /\ response \in AnswersTo(inv.frames[i].request.api)
  /\ inv' = Stepped(i, MethodResolved(inv.frames[i], response))
  /\ UNCHANGED <<env, fs, last, hist>>

\* the remote call of one of the handlers fails
ServeReject(i, reason) ==
  /\ inv.pc = "serving"
  /\ i \in DOMAIN inv.frames
  /\ inv.frames[i].pc = "awaiting"
  /\ inv' = Stepped(i, MethodRejected(inv.frames[i], reason))
  /\ UNCHANGED <<env, fs, last, hist>>

\* one of the handlers continues after its await
ServeResume(i) ==
  /\ inv.pc = "serving"
  /\ i \in DOMAIN inv.frames
  /\ inv.frames[i].pc = "resuming"
  /\ inv' = Stepped(i, HandlerResumed(inv.frames[i]))
  /\ UNCHANGED <<env, fs, last, hist>>

\* the token file holds a bundle, or there is no source of credentials
InitServing ==
  /\ env = CleanEnv
  /\ fs \in { [p \in FsPaths |-> IF p = DefaultTokenPath THEN st ELSE Absent] :
                 st \in { Absent, File(Stringify(FileTokens)) } }
  /\ last = NoCall
  /\ inv = [pc |-> "serving", frames |-> <<>>, log |-> <<>>]
  /\ hist = NoHistory

NextServing ==
  \/ \E request \in ServedRequests : Serve(request)
  \/ \E i \in 1..MaxCalls, r \in ConcurrentResponses : ServeResolve(i, r)
  \/ \E i \in 1..MaxCalls, r \in ConcurrentRejections : ServeReject(i, r)
  \/ \E i \in 1..MaxCalls : ServeResume(i)

SpecServing == InitServing /\ [][NextServing]_vars

\* the lines of the log that frame i wrote, in the order of the log
LinesOf(i) ==
  LET own == SelectSeq(inv.log, LAMBDA e : e.frame = i)
  IN [n \in DOMAIN own |-> own[n].line]

\* every handler returns the response of its own request, and the log holds
\* the lines of every frame in the order in which the frame wrote them
ServedOwn ==
  \A i \in DOMAIN inv.frames :
    LET f == inv.frames[i]
    IN /\ LinesOf(i) = f.stderr
       /\ (f.pc = "settled" /\ "remote" \in DOMAIN f) =>
            f.handler =
              IF f.remote.kind = "resolve"
              THEN Return(ResultPayload(JSONStringify(
                     MethodResult(f.method, f.remote.response).value)))
              ELSE Return(CaughtPayload(handleError(f.remote.reason).outcome.error))

\* two requests failed one after the other before either handler continued:
\* the two lines of handleError precede the two lines of the catch blocks
ServedInterleaved ==
  /\ inv.pc = "serving" /\ Len(inv.log) = 4
  /\ inv.log[1].frame = 1 /\ inv.log[2].frame = 2
  /\ inv.log[3].frame = 1 /\ inv.log[4].frame = 2
  /\ inv.log[1].line = [text |-> <<"Gmail API error: ", "API Error">>]
  /\ inv.log[3].line = [text |-> <<"Tool error: ", "API Error">>]

----------------------------------------------------------------------------
(* The library and the servers together: what an operation writes *)

\* no call is in flight
Quiet == inv.pc \in {"idle", "settled"}

\* the bundles a caller hands to resolveTokens and to createGmailClient
SuppliedBundles == { Undefined, CamelTokens }

\* the options of the test suites for a mail and for a change of labels
TestMail ==
  Obj(<<"to", "subject", "body">>,
      [to |-> Str("test@example.com"), subject |-> Str("Test"),
       body |-> Str("Hello")])
TestLabels == Obj(<<"addLabelIds">>, [addLabelIds |-> Arr(<<Str("STARRED")>>)])

\* the remote service answers a call, or fails it
AnswerOf(api) == CHOOSE r \in Responses(api) : TRUE
Failure == Error(<<"API Error">>)

\* the tools/call requests: every name without arguments, and every
\* registered tool with arguments that embed a bundle
EmbeddingRequests ==
  { RequestWith(p[1], WithTokens(p[2])) :
      p \in { q \in RegisteredTools
                      \X UNION { ToolArguments(m) : m \in RegisteredTools } :
                q[2] \in ToolArguments(q[1]) } }
WholeRequests == BareRequests \cup EmbeddingRequests

\* GMAIL_TOKEN unset, a bundle or invalid; the token file absent, a bundle or
\* unreadable
InitWhole ==
  /\ env \in { [CleanEnv EXCEPT !["GMAIL_TOKEN"] = v] :
                 v \in { Undefined, JsonStr(Stringify(EnvTokens)),
                         JsonStr(InvalidJson) } }
  /\ fs \in { [p \in FsPaths |-> IF p = DefaultTokenPath THEN st ELSE Absent] :
                 st \in { Absent, File(Stringify(FileTokens)), Unreadable } }
  /\ last = NoCall
  /\ inv = Idle
  /\ hist = NoHistory

\* a call of each of the eleven methods of a client
MethodCalls ==
  { [method |-> "listMessages", args |-> <<Undefined, Undefined>>,
     call |-> listMessages(Undefined, Undefined)],
    [method |-> "getMessage", args |-> <<Undefined, Str("msg1"), Str("raw")>>,
     call |-> getMessage(Undefined, Str("msg1"), Str("raw"))],
    [method |-> "searchMessages",
     args |-> <<Undefined, Str("is:unread"), Undefined>>,
     call |-> searchMessages(Undefined, Str("is:unread"), Undefined)],
    [method |-> "sendMessage", args |-> <<Undefined, TestMail>>,
     call |-> sendMessage(Undefined, TestMail)],
    [method |-> "sendMessage", args |-> <<Undefined, Undefined>>,
     call |-> sendMessage(Undefined, Undefined)],
    [method |-> "createDraft", args |-> <<Undefined, TestMail>>,
     call |-> createDraft(Undefined, TestMail)],
    [method |-> "listLabels", args |-> <<Undefined>>,
     call |-> listLabels(Undefined)],
    [method |-> "modifyMessageLabels",
     args |-> <<Undefined, Str("msg1"), TestLabels>>,
     call |-> modifyMessageLabels(Undefined, Str("msg1"), TestLabels)],
    [method |-> "trashMessage", args |-> <<Undefined, Str("msg1")>>,
     call |-> trashMessage(Undefined, Str("msg1"))],
    [method |-> "untrashMessage", args |-> <<Undefined, Str("msg1")>>,
     call |-> untrashMessage(Undefined, Str("msg1"))],
    [method |-> "listThreads", args |-> <<Undefined, Undefined>>,
     call |-> listThreads(Undefined, Undefined)],
    [method |-> "getThread", args |-> <<Undefined, Str("thread1"), Undefined>>,
     call |-> getThread(Undefined, Str("thread1"), Undefined)] }

\* a call of each of the eleven exported functions, which pass 'me' or the
\* user they were given to the method of the same name
FunctionCalls ==
  { [fn |-> "listMessages", args |-> <<Undefined, Undefined>>,
     call |-> listMessages(Undefined, Undefined)],
    [fn |-> "getMessage", args |-> <<Str("msg1"), Str("raw")>>,
     call |-> getMessage(Str("me"), Str("msg1"), Str("raw"))],
    [fn |-> "searchMessages", args |-> <<Str("is:unread"), Undefined>>,
     call |-> searchMessages(Str("me"), Str("is:unread"), Undefined)],
    [fn |-> "sendMessage", args |-> <<TestMail>>,
     call |-> sendMessage(Str("me"), TestMail)],
    [fn |-> "createDraft", args |-> <<TestMail>>,
     call |-> createDraft(Str("me"), TestMail)],
    [fn |-> "listLabels", args |-> <<>>, call |-> listLabels(Undefined)],
    [fn |-> "modifyMessageLabels", args |-> <<Str("msg1"), TestLabels>>,
     call |-> modifyMessageLabels(Str("me"), Str("msg1"), TestLabels)],
    [fn |-> "trashMessage", args |-> <<Str("msg1")>>,
     call |-> trashMessage(Str("me"), Str("msg1"))],
    [fn |-> "untrashMessage", args |-> <<Str("msg1")>>,
     call |-> untrashMessage(Str("me"), Str("msg1"))],
    [fn |-> "listThreads", args |-> <<Undefined>>,
     call |-> listThreads(Str("me"), Undefined)],
    [fn |-> "getThread", args |-> <<Str("thread1"), Undefined>>,
     call |-> getThread(Str("me"), Str("thread1"), Undefined)] }

\* a method of the client that createGmailClient returned is called
CallMethod(c) ==
  /\ Quiet /\ ClientReady
  /\ Invoke(c.method, c.args, c.call)

\* an exported function is called
CallFunction(c, tokens) ==
  /\ Quiet
  /\ Standalone(c.fn, c.args, tokens, c.call)

\* every operation of the library and of the two servers: resolveTokens,
\* createGmailClient, the methods of a client, the exported functions, the
\* two tools/call handlers and the tools/list handler, and the steps in which
\* an awaited remote call settles
NextWhole ==
  \/ inv.pc = "idle" /\ \E provided \in SuppliedBundles : ResolveTokens(provided)
  \/ /\ inv.pc = "idle"
     /\ \E options \in OptionsOf(SuppliedBundles) : CreateGmailClient(options)
  \/ \E c \in MethodCalls : CallMethod(c)
  \/ \E c \in FunctionCalls, t \in TokensArgs : CallFunction(c, t)
  \/ /\ inv.pc = "awaiting" /\ "server" \notin DOMAIN inv
     /\ \E r \in {AnswerOf(inv.request.api)} : RemoteResolve(r)
  \/ /\ inv.pc = "awaiting" /\ "server" \notin DOMAIN inv
     /\ \E r \in {Failure} : RemoteReject(r)
  \/ \E request \in WholeRequests : CallToolZod(request)
  \/ \E request \in WholeRequests : CallToolJson(request)
  \/ /\ inv.pc = "awaiting" /\ "server" \in DOMAIN inv
     /\ \E r \in {AnswerOf(inv.request.api)} : ToolResolve(r)
  \/ /\ inv.pc = "awaiting" /\ "server" \in DOMAIN inv
     /\ \E r \in {Failure} : ToolReject(r)
  \/ ToolResume
  \/ inv.pc = "idle" /\ \E server \in {"zod", "json"} : ListTools(server)

SpecWhole == InitWhole /\ [][NextWhole]_vars

----------------------------------------------------------------------------
(* Credential resolution and construction only read *)

\* a step is a call of resolveTokens or of createGmailClient
ResolvesOrConstructs == last'.op \in {"resolveTokens", "createGmailClient"}

\* the bundle the call was given
SuppliedBundle(call) ==
  IF call.op = "resolveTokens" THEN call.arg ELSE OptionsTokens(call.arg)

\* C18: a call of resolveTokens or of createGmailClient, whatever its outcome,
\* leaves the environment variables and the supplied bundle as they were, and
\* no operation of the library or of the servers (resolution, construction, a
\* method of a client, an exported function, a tool handler, the settling of
\* a remote call) changes the token file or any other file.
C18_ReadOnly ==
  [][ /\ fs' = fs
      /\ ResolvesOrConstructs =>
           /\ env' = env
           /\ last'.supplied = SuppliedBundle(last') ]_vars

\* a client was constructed from a supplied camel-case bundle while
\* GMAIL_TOKEN was invalid and a token file existed, a method of the client
\* has run to its end, and the variable, the file and the bundle are as they
\* were
C18_Witness ==
  /\ last.op = "createGmailClient" /\ last.outcome.kind = "return"
  /\ last.supplied = CamelTokens
  /\ inv.pc = "settled" /\ "method" \in DOMAIN inv /\ "server" \notin DOMAIN inv
  /\ env["GMAIL_TOKEN"] = JsonStr(InvalidJson)
  /\ fs[DefaultTokenPath] = File(Stringify(FileTokens))

====
